---- MODULE Spec2Model ----
(***************************************************************************)
(* Nazara Engine - Graphics module: ForwardRenderQueue.                    *)
(*                                                                         *)
(* The queue of src/src/Nazara/Graphics/ForwardRenderQueue.cpp as a state  *)
(* machine: the six RenderQueue buckets, the billboard pool m_billboards,  *)
(* the active-layer set m_renderLayers, the per-layer map `layers`, and    *)
(* the function-local statics of Sort (the layer table, its `once` flag    *)
(* and the six identity tables).                                           *)
(*                                                                         *)
(* The module also holds two peripheral programs of the repository:        *)
(* BoxLayout::Layout (src/SDK/src/NDK/Widgets/BoxLayout.cpp), with sizes   *)
(* and positions in single-precision floats, and the face loop of the OBJ  *)
(* loader (src/src/Nazara/Utility/Formats/OBJLoader.cpp), with its loop    *)
(* bound in unsigned 32-bit arithmetic.                                    *)
(*                                                                         *)
(* A 64-bit sort key is a sequence of 16 hexadecimal digits, most          *)
(* significant first, so that every shift, mask and overflow of the C++    *)
(* expression is kept (all shifts of Sort are multiples of 4 bits).        *)
(* Positions are points of the view axis: the eye and the near plane lie   *)
(* on it, and the near plane's normal is the axis.                         *)
(***************************************************************************)
EXTENDS Integers, Sequences, FiniteSets, TLC

VARIABLES
    basicSprites,           \* RenderQueue<SpriteChain>: opaque sprites
    billboards,             \* RenderQueue<BillboardChain>: opaque billboard batches
    models,                 \* RenderQueue<Model>: opaque models
    depthSortedSprites,     \* RenderQueue<SpriteChain>
    depthSortedBillboards,  \* RenderQueue<Billboard>
    depthSortedModels,      \* RenderQueue<Model>
    m_billboards,           \* std::vector<BillboardData>: the billboard pool
    poolFault,              \* the pool accesses of the frame that fell outside the vector
    m_renderLayers,         \* the active layers
    layers,                 \* member map: layer -> Layer (clearCount, otherDrawables, ...)
    sortLayers,             \* Sort's static `layers`: layer -> compact index
    once,                   \* Sort's static `once`
    pipelines,              \* Sort's static identity tables: key -> index
    materials,
    overlays,
    shaders,
    textures,
    vertexBuffers,
    lastOp,                 \* the operation that produced the state
    keyA,                   \* operands of the key assembler (KeySpec)
    keyB,
    children,               \* BoxLayout: the child widgets in child order (position, size)
    m_orientation,          \* BoxLayout::m_orientation
    faces,                  \* OBJ Load: the faces of the sub-mesh, each the FaceVertex of its corners
    indexList,              \* OBJ Load: std::vector<UInt32> indices
    vertexMap,              \* OBJ Load: unordered_map<FaceVertex, unsigned int> vertices
    vertexCount,            \* OBJ Load: unsigned int vertexCount
    faceIndices,            \* OBJ Load: std::vector<UInt32> faceIndices
    faceCursor,             \* OBJ Load: the face the loop over j handles next (from 1)
    loadFault               \* OBJ Load: an element read outside faceIndices

buckets == <<basicSprites, billboards, models,
             depthSortedSprites, depthSortedBillboards, depthSortedModels>>
statics == <<sortLayers, once, pipelines, materials, overlays, shaders,
             textures, vertexBuffers>>
keyVars == <<keyA, keyB>>
widgetVars == <<children, m_orientation>>
loaderVars == <<faces, indexList, vertexMap, vertexCount, faceIndices, faceCursor,
                loadFault>>
\* The state outside the render queue: the widgets and the OBJ loader.
peripheral == <<widgetVars, loaderVars>>
vars == <<buckets, m_billboards, poolFault, m_renderLayers, layers, statics,
          lastOp, keyVars, peripheral>>

-----------------------------------------------------------------------------
(* Unsigned 64-bit words as 16 hexadecimal digits, most significant first. *)

RECURSIVE Pow2(_)
Pow2(n) == IF n = 0 THEN 1 ELSE 2 * Pow2(n - 1)

RECURSIVE Log2Floor(_)
Log2Floor(n) == IF n < 2 THEN 0 ELSE 1 + Log2Floor(n \div 2)

\* The word whose i-th digit is D(i).
Word(D(_)) == <<D(1), D(2), D(3), D(4), D(5), D(6), D(7), D(8),
                D(9), D(10), D(11), D(12), D(13), D(14), D(15), D(16)>>

Zero64 == <<0, 0, 0, 0, 0, 0, 0, 0, 0, 0, 0, 0, 0, 0, 0, 0>>

\* The 64-bit word holding the natural number n (n < 2^31).
RECURSIVE DigitOf(_, _)
DigitOf(n, place) == IF place = 0 THEN n % 16 ELSE DigitOf(n \div 16, place - 1)

ToU64(n) ==
    LET D(i) == IF 16 - i < 8 THEN DigitOf(n, 16 - i) ELSE 0
    IN  Word(D)

\* w << (4 * digits), the digits shifted out at the top are lost.
Shl64(w, digits) ==
    LET D(i) == IF i + digits <= 16 THEN w[i + digits] ELSE 0
    IN  Word(D)

RECURSIVE OrBits(_, _, _)
OrBits(a, b, n) ==
    IF n = 0 THEN 0
    ELSE (IF a % 2 = 1 \/ b % 2 = 1 THEN 1 ELSE 0)
         + 2 * OrBits(a \div 2, b \div 2, n - 1)

Or64(a, b) ==
    LET D(i) == IF a[i] = 0 THEN b[i]
                ELSE IF b[i] = 0 THEN a[i]
                ELSE OrBits(a[i], b[i], 4)
    IN  Word(D)

\* Unsigned comparison of two 64-bit words.
RECURSIVE LessFrom(_, _, _)
LessFrom(a, b, i) ==
    IF i > 16 THEN FALSE
    ELSE IF a[i] # b[i] THEN a[i] < b[i]
    ELSE LessFrom(a, b, i + 1)

Less64(a, b) == LessFrom(a, b, 1)

-----------------------------------------------------------------------------
(* float: the IEEE-754 binary32 pattern of a non-negative integer value,   *)
(* rounded to nearest even when it needs more than 24 significant bits.    *)

FloatBits(n) ==
    IF n = 0 THEN 0
    ELSE LET e == Log2Floor(n)
         IN  IF e <= 23
             THEN (e + 127) * Pow2(23) + (n - Pow2(e)) * Pow2(23 - e)
             ELSE LET sh   == e - 23
                      q    == n \div Pow2(sh)
                      r    == n % Pow2(sh)
                      half == Pow2(sh - 1)
                      up   == r > half \/ (r = half /\ q % 2 = 1)
                      q2   == IF up THEN q + 1 ELSE q
                  IN  IF q2 = Pow2(24)
                      THEN (e + 1 + 127) * Pow2(23)
                      ELSE (e + 127) * Pow2(23) + (q2 - Pow2(23))

-----------------------------------------------------------------------------
(* The resources the queue borrows. A material is an identity with the     *)
(* accessors Sort and the submissions read.                                *)

Null == "null"

MatA == [name |-> "MatA", pipeline |-> "Pipe1", shader |-> "Shader1",
         diffuseMap |-> "Tex1", depthSorting |-> FALSE]
MatB == [name |-> "MatB", pipeline |-> "Pipe2", shader |-> "Shader1",
         diffuseMap |-> "Tex1", depthSorting |-> FALSE]
MatT == [name |-> "MatT", pipeline |-> "Pipe1", shader |-> "Shader1",
         diffuseMap |-> "Tex2", depthSorting |-> TRUE]

\* The null Material pointer.
NullMaterial == [name |-> Null, pipeline |-> Null, shader |-> Null,
                 diffuseMap |-> Null, depthSorting |-> FALSE]

Materials == {MatA, MatB, MatT}
OpaqueMaterials == {m \in Materials : ~m.depthSorting}
LayerValues == {0, 1}
OverlayTextures == {Null, "Tex2"}
VertexBufferIds == {"VB1", "VB2"}
IndexBufferIds == {"IB1"}
MeshDatas == {[vertexBuffer |-> vb, indexBuffer |-> "IB1"] : vb \in VertexBufferIds}
Drawables == {"Drawable1"}

\* A viewer: projection type, eye position and near plane on the view axis.
Viewers == {[projection |-> "Orthogonal", eye |-> -1, near |-> 0],
            [projection |-> "Perspective", eye |-> -1, near |-> 0]}

\* Planef::Distance for a plane whose normal is the view axis.
PlaneDistance(viewer, z) == z - viewer.near

\* Vector3f::SquaredDistance on the view axis.
SquaredDistance(viewer, z) == (z - viewer.eye) * (z - viewer.eye)

-----------------------------------------------------------------------------
(* RenderQueue<T>: the records in insertion order and, after Sort, the     *)
(* (key, index) pairs in key order.                                        *)

\* An empty std::map or std::unordered_map.
EmptyMap == [k \in {} |-> 0]

EmptyQueue == [data |-> <<>>, ordered |-> <<>>]

Insert(queue, record) == [queue EXCEPT !.data = Append(@, record)]

\* Insert e into the key-ordered sequence s before every entry whose key is
\* not smaller: the ordering a sort that is not stable may produce.
RECURSIVE InsertBeforeEqual(_, _)
InsertBeforeEqual(s, e) ==
    IF s = <<>> THEN <<e>>
    ELSE IF Less64(s[Len(s)].key, e.key)
         THEN Append(s, e)
         ELSE Append(InsertBeforeEqual(SubSeq(s, 1, Len(s) - 1), e), s[Len(s)])

\* Insert e into the key-ordered sequence s behind every entry whose key is
\* not greater (stable).
RECURSIVE InsertOrdered(_, _)
InsertOrdered(s, e) ==
    IF s = <<>> THEN <<e>>
    ELSE IF Less64(e.key, s[Len(s)].key)
         THEN Append(InsertOrdered(SubSeq(s, 1, Len(s) - 1), e), s[Len(s)])
         ELSE Append(s, e)

RECURSIVE SortPairs(_, _)
SortPairs(keys, n) ==
    IF n = 0 THEN <<>>
    ELSE InsertOrdered(SortPairs(keys, n - 1), [key |-> keys[n], index |-> n])

\* RenderQueue<T>::Sort once the index function gave keys[i] for data[i].
SortQueue(queue, keys) == [queue EXCEPT !.ordered = SortPairs(keys, Len(queue.data))]

\* The records of a bucket in the order the backend iterates them.
Ordered(queue) == [i \in 1..Len(queue.ordered) |-> queue.data[queue.ordered[i].index]]

-----------------------------------------------------------------------------
(* Layers.                                                                 *)

NewLayer == [clearCount |-> 0, otherDrawables |-> <<>>,
             opaqueSprites |-> {}, billboards |-> {}, opaqueModels |-> {}]

\* GetLayer without the reset of clearCount.
GetLayerKeepingCount(map, i) ==
    IF i \in DOMAIN map THEN map ELSE map @@ (i :> NewLayer)

\* ForwardRenderQueue::GetLayer: find or insert, and reset clearCount.
GetLayer(map, i) ==
    LET found == IF i \in DOMAIN map THEN map ELSE map @@ (i :> NewLayer)
    IN  [found EXCEPT ![i].clearCount = 0]

RegisterLayer(set, layerIndex) == set \cup {layerIndex}

-----------------------------------------------------------------------------
(* The sort-key assembler of ForwardRenderQueue::Sort. The statics are     *)
(* threaded through the index functions as one record                      *)
(* [layers, pipelines, materials, shaders, textures, overlays,             *)
(*  vertexBuffers]; an index function returns the updated statics and the  *)
(* key.                                                                    *)

Tables == [layers |-> sortLayers, pipelines |-> pipelines, materials |-> materials,
           shaders |-> shaders, textures |-> textures, overlays |-> overlays,
           vertexBuffers |-> vertexBuffers]

Size(container) == Cardinality(DOMAIN container)

\* An assignment of container.size() to the value whether present or not.
GetOrInsertAssign(container, value) ==
    [c |-> [x \in DOMAIN container \cup {value} |->
              IF x = value THEN Size(container) ELSE container[x]],
     v |-> Size(container)]

\* container.emplace(value, container.size()).first->second
GetOrInsertEmplace(container, value) ==
    IF value \in DOMAIN container
    THEN [c |-> container, v |-> container[value]]
    ELSE [c |-> container @@ (value :> Size(container)), v |-> Size(container)]

\* The find variant returning the size of the table after the insertion.
GetOrInsertFindSizeAfter(container, value) ==
    LET c == IF value \in DOMAIN container THEN container
             ELSE container @@ (value :> Size(container))
    IN  [c |-> c, v |-> IF value \in DOMAIN container THEN c[value] ELSE Size(c)]

\* find, then emplace when absent
GetOrInsertFind(container, value) ==
    LET c == IF value \in DOMAIN container THEN container
             ELSE container @@ (value :> Size(container))
    IN  [c |-> c, v |-> c[value]]

\* layers[layerIndex] on the static std::unordered_map<int, std::size_t>:
\* operator[] inserts a value-initialised (zero) index for an unknown layer.
LayerLookup(container, layerIndex) ==
    IF layerIndex \in DOMAIN container
    THEN [c |-> container, v |-> container[layerIndex]]
    ELSE [c |-> container @@ (layerIndex :> 0), v |-> 0]

\* The assembler with the material field above the pipeline field.
IdentityKeyMaterialFirst(layerIndex, pipelineIndex, materialIndex, shaderIndex, textureIndex, secIndex, scissorIndex, depthIndex) ==
    Or64(Shl64(ToU64(layerIndex % 16), 15),
    Or64(Shl64(ToU64(materialIndex % 256), 13),
    Or64(Shl64(ToU64(pipelineIndex % 256), 11),
    Or64(Shl64(ToU64(shaderIndex % 256), 9),
    Or64(Shl64(ToU64(textureIndex % 256), 7),
    Or64(Shl64(ToU64(secIndex % 256), 5),
    Or64(Shl64(ToU64(scissorIndex % 16), 4),
         Shl64(ToU64(depthIndex % 65536), 0))))))))

\* The assembler without the mask of the material index.
IdentityKeyUnmasked(layerIndex, pipelineIndex, materialIndex, shaderIndex, textureIndex, secIndex, scissorIndex, depthIndex) ==
    Or64(Shl64(ToU64(layerIndex % 16), 15),
    Or64(Shl64(ToU64(pipelineIndex % 256), 13),
    Or64(Shl64(ToU64(materialIndex), 11),
    Or64(Shl64(ToU64(shaderIndex % 256), 9),
    Or64(Shl64(ToU64(textureIndex % 256), 7),
    Or64(Shl64(ToU64(secIndex % 256), 5),
    Or64(Shl64(ToU64(scissorIndex % 16), 4),
         Shl64(ToU64(depthIndex % 65536), 0))))))))

\* (layer & 0x0F) << 60 | (pipeline & 0xFF) << 52 | (material & 0xFF) << 44 |
\* (shader & 0xFF) << 36 | (texture & 0xFF) << 28 | (sec & 0xFF) << 20 |
\* (scissor & 0x0F) << 16 | (depth & 0xFFFF) << 0
IdentityKey(layerIndex, pipelineIndex, materialIndex, shaderIndex, textureIndex, secIndex, scissorIndex, depthIndex) ==
    Or64(Shl64(ToU64(layerIndex % 16), 15),
    Or64(Shl64(ToU64(pipelineIndex % 256), 13),
    Or64(Shl64(ToU64(materialIndex % 256), 11),
    Or64(Shl64(ToU64(shaderIndex % 256), 9),
    Or64(Shl64(ToU64(textureIndex % 256), 7),
    Or64(Shl64(ToU64(secIndex % 256), 5),
    Or64(Shl64(ToU64(scissorIndex % 16), 4),
         Shl64(ToU64(depthIndex % 65536), 0))))))))

\* The assembler applied to the indices
\* <<layer, pipeline, material, shader, texture, sec, scissor, depth>>.
Assembled(indices) ==
    [indices |-> indices,
     key     |-> IdentityKey(indices[1], indices[2], indices[3], indices[4],
                             indices[5], indices[6], indices[7], indices[8])]

\* (layerIndex & 0x0F) << 60 | (depthIndex & 0xFFFFFFFF) << 52
DepthKey(layerIndex, depthIndex) ==
    Or64(Shl64(ToU64(layerIndex % 16), 15), Shl64(ToU64(depthIndex), 13))

\* The index function of basicSprites.Sort.
SpriteIndex(t, vertices) ==
    LET l  == LayerLookup(t.layers, vertices.layerIndex)
        p  == GetOrInsertEmplace(t.pipelines, vertices.material.pipeline)
        m  == GetOrInsertEmplace(t.materials, vertices.material)
        sh == GetOrInsertEmplace(t.shaders, vertices.material.shader)
        tx == GetOrInsertEmplace(t.textures, vertices.material.diffuseMap)
        o  == GetOrInsertEmplace(t.overlays, vertices.overlay)
    IN  [t   |-> [t EXCEPT !.layers = l.c, !.pipelines = p.c, !.materials = m.c,
                           !.shaders = sh.c, !.textures = tx.c, !.overlays = o.c],
         key |-> IdentityKey(l.v, p.v, m.v, sh.v, tx.v, o.v, 0, 0)]

\* The index function of billboards.Sort.
BillboardChainIndex(t, billboard) ==
    LET l  == LayerLookup(t.layers, billboard.layerIndex)
        p  == GetOrInsertFind(t.pipelines, billboard.material.pipeline)
        m  == GetOrInsertFind(t.materials, billboard.material)
        sh == GetOrInsertFind(t.shaders, billboard.material.shader)
        tx == GetOrInsertFind(t.textures, billboard.material.diffuseMap)
    IN  [t   |-> [t EXCEPT !.layers = l.c, !.pipelines = p.c, !.materials = m.c,
                           !.shaders = sh.c, !.textures = tx.c],
         key |-> IdentityKey(l.v, p.v, m.v, sh.v, tx.v, 0, 0, 0)]

\* The index function of models.Sort.
ModelIndex(t, renderData) ==
    LET l  == LayerLookup(t.layers, renderData.layerIndex)
        p  == GetOrInsertEmplace(t.pipelines, renderData.material.pipeline)
        m  == GetOrInsertEmplace(t.materials, renderData.material)
        sh == GetOrInsertEmplace(t.shaders, renderData.material.shader)
        tx == GetOrInsertEmplace(t.textures, renderData.material.diffuseMap)
        b  == GetOrInsertEmplace(t.vertexBuffers, renderData.meshData.vertexBuffer)
    IN  [t   |-> [t EXCEPT !.layers = l.c, !.pipelines = p.c, !.materials = m.c,
                           !.shaders = sh.c, !.textures = tx.c, !.vertexBuffers = b.c],
         key |-> IdentityKey(l.v, p.v, m.v, sh.v, tx.v, b.v, 0, 0)]

\* The depth each depth-sorted bucket puts in its key.
BillboardDepth(viewer, billboard) == PlaneDistance(viewer, billboard.data.center)

ModelDepth(viewer, model) ==
    IF viewer.projection = "Orthogonal"
    THEN PlaneDistance(viewer, model.obbSphere)
    ELSE SquaredDistance(viewer, model.obbSphere)

SpriteDepth(viewer, spriteChain) ==
    IF viewer.projection = "Orthogonal"
    THEN PlaneDistance(viewer, spriteChain.position)
    ELSE SquaredDistance(viewer, spriteChain.position)

\* The index function of the three depth-sorted buckets, given the depth.
DepthIndex(t, layerIndex, depth) ==
    LET l == LayerLookup(t.layers, layerIndex)
    IN  [t   |-> [t EXCEPT !.layers = l.c],
         key |-> DepthKey(l.v, FloatBits(depth))]

DepthSortedBillboardIndex(viewer, t, billboard) ==
    DepthIndex(t, billboard.layerIndex, BillboardDepth(viewer, billboard))

DepthSortedModelIndex(viewer, t, model) ==
    DepthIndex(t, model.layerIndex, ModelDepth(viewer, model))

DepthSortedSpriteIndex(viewer, t, spriteChain) ==
    DepthIndex(t, spriteChain.layerIndex, SpriteDepth(viewer, spriteChain))

\* The index function of bucket `kind`.
IndexFunc(kind, viewer, t, record) ==
    CASE kind = "basicSprites"          -> SpriteIndex(t, record)
      [] kind = "billboards"            -> BillboardChainIndex(t, record)
      [] kind = "models"                -> ModelIndex(t, record)
      [] kind = "depthSortedBillboards" -> DepthSortedBillboardIndex(viewer, t, record)
      [] kind = "depthSortedModels"     -> DepthSortedModelIndex(viewer, t, record)
      [] kind = "depthSortedSprites"    -> DepthSortedSpriteIndex(viewer, t, record)

\* RenderQueue<T>::Sort(func): func on every record in insertion order, then
\* the pairs sorted by key. Returns the statics and the keys after the
\* first n records.
RECURSIVE IndexAll(_, _, _, _, _)
IndexAll(kind, viewer, t, data, n) ==
    IF n = 0 THEN [t |-> t, keys |-> <<>>]
    ELSE LET before == IndexAll(kind, viewer, t, data, n - 1)
             this   == IndexFunc(kind, viewer, before.t, data[n])
         IN  [t |-> this.t, keys |-> Append(before.keys, this.key)]

SortBucket(kind, viewer, t, queue) ==
    LET all == IndexAll(kind, viewer, t, queue.data, Len(queue.data))
    IN  [t |-> all.t, queue |-> SortQueue(queue, all.keys)]

\* The snapshot of the layer set, taken by the first Sort of the process.
RECURSIVE EmplaceLayers(_, _)
EmplaceLayers(container, set) ==
    IF set = {} THEN container
    ELSE LET layer == CHOOSE l \in set : \A o \in set : l <= o
         IN  EmplaceLayers(GetOrInsertEmplace(container, layer).c, set \ {layer})

-----------------------------------------------------------------------------
(* Submission.                                                             *)

White == <<255, 255, 255, 255>>

\* An element value-initialised by m_billboards.resize and not written yet:
\* all zero, which no instance of a submission is (its size is not zero).
Unwritten == [color |-> <<0, 0, 0, 0>>, center |-> 0, size |-> <<0, 0>>,
              sinCos |-> <<0, 0>>]

\* ComputeColor(alpha): Color(255, 255, 255, UInt8(255 * alpha)), alpha in quarters.
ComputeColor(alpha) == <<255, 255, 255, (255 * alpha) \div 4>>

\* ComputeSinCos(angle), the angle in quarter turns.
ComputeSinCos(angle) ==
    CASE angle % 4 = 0 -> <<0, 1>>
      [] angle % 4 = 1 -> <<1, 0>>
      [] angle % 4 = 2 -> <<0, -1>>
      [] angle % 4 = 3 -> <<-1, 0>>

\* ComputeSize(size): Vector2f(size, size)
ComputeSize(size) == <<size, size>>

\* A SparsePtr stream: absent (null), or the values it walks over.
NoStream == [present |-> FALSE, values |-> <<>>]
Stream(values) == [present |-> TRUE, values |-> values]

\* The i-th instance the eight AddBillboards overloads read from their
\* streams: a null rotation or colour stream is reset to a default with
\* stride zero, and the float streams go through ComputeSize, ComputeSinCos
\* and ComputeColor.
BillboardInstance(i, positionPtr, sizeKind, sizePtr, rotKind, rotPtr, colKind, colPtr) ==
    [color  |-> IF colKind = "Color"
                THEN (IF colPtr.present THEN colPtr.values[i] ELSE White)
                ELSE ComputeColor(IF colPtr.present THEN colPtr.values[i] ELSE 4),
     center |-> positionPtr[i],
     size   |-> IF sizeKind = "Vector2f" THEN sizePtr[i] ELSE ComputeSize(sizePtr[i]),
     sinCos |-> IF rotKind = "sinCos"
                THEN (IF rotPtr.present THEN rotPtr.values[i] ELSE <<0, 1>>)
                ELSE ComputeSinCos(IF rotPtr.present THEN rotPtr.values[i] ELSE 0)]

\* The records inserted last first.
RECURSIVE InsertAllReversed(_, _)
InsertAllReversed(queue, records) ==
    IF records = <<>> THEN queue
    ELSE Insert(InsertAllReversed(queue, Tail(records)), Head(records))

RECURSIVE InsertAll(_, _)
InsertAll(queue, records) ==
    IF records = <<>> THEN queue
    ELSE InsertAll(Insert(queue, Head(records)), Tail(records))

\* NazaraAssert(material, "Invalid material") on a null material: the
\* assertion is raised and the call ends there.
NazaraAssertFailed(call, renderOrder) ==
    /\ lastOp' = [op |-> "AssertFailed", arg |-> renderOrder, call |-> call]
    /\ UNCHANGED <<buckets, m_billboards, poolFault, m_renderLayers, layers, statics,
                   keyVars, peripheral>>

\* data = &m_billboards.back() - billboardCount: the vector index (from 0)
\* of the element the write loop starts at, after the resize.
WriteStart(billboardIndex, billboardCount) ==
    (billboardIndex + billboardCount - 1) - billboardCount

\* The pool after the write loop: instance i goes to index start + i - 1
\* when that index lies in the vector.
PoolAfterWrites(pool, start, instances) ==
    [p \in 1..Len(pool) |->
        LET i == p - start
        IN  IF i \in 1..Len(instances) THEN instances[i] ELSE pool[p]]

\* Whether back() is taken of an empty vector or a write falls outside it.
PoolAccessFault(size, start, count) ==
    \/ size = 0
    \/ \E i \in 1..count : start + i - 1 < 0 \/ start + i - 1 >= size

AddBillboards(renderOrder, material, billboardCount, positionPtr, sizeKind, sizePtr, rotKind, rotPtr, colKind, colPtr) ==
    IF material = NullMaterial THEN NazaraAssertFailed("AddBillboards", renderOrder)
    ELSE
    LET instances == [i \in 1..billboardCount |->
                        BillboardInstance(i, positionPtr, sizeKind, sizePtr,
                                          rotKind, rotPtr, colKind, colPtr)]
    IN
    /\ IF material.depthSorting
       THEN /\ depthSortedBillboards' =
                   InsertAll(depthSortedBillboards,
                             [i \in 1..billboardCount |->
                                [layerIndex |-> renderOrder, material |-> material,
                                 data |-> instances[i]]])
            /\ UNCHANGED <<billboards, m_billboards, poolFault>>
       ELSE LET billboardIndex == Len(m_billboards)
                resized == m_billboards \o [i \in 1..billboardCount |-> Unwritten]
                start   == WriteStart(billboardIndex, billboardCount)
            IN  /\ m_billboards' = PoolAfterWrites(resized, start, instances)
                /\ poolFault' = (poolFault
                                   \/ PoolAccessFault(Len(resized), start, billboardCount))
                /\ billboards' = Insert(billboards,
                                        [layerIndex |-> renderOrder, material |-> material,
                                         billboardCount |-> billboardCount,
                                         billboardIndex |-> billboardIndex])
                /\ UNCHANGED depthSortedBillboards
    /\ lastOp' = [op |-> "AddBillboards", arg |-> renderOrder, material |-> material,
                  instances |-> instances,
                  rotation |-> rotPtr.present, colour |-> colPtr.present]
    /\ UNCHANGED <<basicSprites, models, depthSortedSprites, depthSortedModels,
                   m_renderLayers, layers, statics, keyVars, peripheral>>

\* AddDrawable taking the layer before it tests the drawable.
AddDrawableLayerFirst(NAZARA_GRAPHICS_SAFE, renderOrder, drawable) ==
    /\ IF NAZARA_GRAPHICS_SAFE /\ drawable = Null
       THEN layers' = GetLayer(layers, renderOrder)
       ELSE layers' = [GetLayer(layers, renderOrder) EXCEPT
                          ![renderOrder].otherDrawables = Append(@, drawable)]
    /\ lastOp' = [op |-> "AddDrawable", arg |-> renderOrder, drawable |-> drawable,
                  safe |-> NAZARA_GRAPHICS_SAFE]
    /\ UNCHANGED <<buckets, m_billboards, poolFault, m_renderLayers, statics, keyVars, peripheral>>

\* AddDrawable in a build with or without NAZARA_GRAPHICS_SAFE: the test of
\* the drawable is compiled under #if NAZARA_GRAPHICS_SAFE only.
AddDrawableBuild(NAZARA_GRAPHICS_SAFE, renderOrder, drawable) ==
    /\ IF NAZARA_GRAPHICS_SAFE /\ drawable = Null
       THEN UNCHANGED layers
       ELSE layers' = [GetLayer(layers, renderOrder) EXCEPT
                          ![renderOrder].otherDrawables = Append(@, drawable)]
    /\ lastOp' = [op |-> "AddDrawable", arg |-> renderOrder, drawable |-> drawable,
                  safe |-> NAZARA_GRAPHICS_SAFE]
    /\ UNCHANGED <<buckets, m_billboards, poolFault, m_renderLayers, statics, keyVars, peripheral>>

\* AddDrawable in the build with NAZARA_GRAPHICS_SAFE.
AddDrawable(renderOrder, drawable) == AddDrawableBuild(TRUE, renderOrder, drawable)

\* AddMesh without the test of IsDepthSortingEnabled: every mesh goes to the
\* opaque bucket.
AddMeshIntoModels(renderOrder, material, meshData, center) ==
    /\ m_renderLayers' = RegisterLayer(m_renderLayers, renderOrder)
    /\ models' = Insert(models, [layerIndex |-> renderOrder, meshData |-> meshData,
                                 material |-> material, obbSphere |-> center])
    /\ lastOp' = [op |-> "AddMesh", arg |-> renderOrder, material |-> material]
    /\ UNCHANGED <<basicSprites, billboards, depthSortedSprites, depthSortedBillboards,
                   depthSortedModels, m_billboards, poolFault, layers, statics, keyVars, peripheral>>

AddMesh(renderOrder, material, meshData, center) ==
    IF material = NullMaterial THEN NazaraAssertFailed("AddMesh", renderOrder)
    ELSE
    LET record == [layerIndex |-> renderOrder, meshData |-> meshData,
                   material |-> material, obbSphere |-> center]
    IN
    /\ m_renderLayers' = RegisterLayer(m_renderLayers, renderOrder)
    /\ IF material.depthSorting
       THEN /\ depthSortedModels' = Insert(depthSortedModels, record)
            /\ UNCHANGED models
       ELSE /\ models' = Insert(models, record)
            /\ UNCHANGED depthSortedModels
    /\ lastOp' = [op |-> "AddMesh", arg |-> renderOrder, material |-> material]
    /\ UNCHANGED <<basicSprites, billboards, depthSortedSprites, depthSortedBillboards,
                   m_billboards, poolFault, layers, statics, keyVars, peripheral>>

\* AddSprites taking the layer before it tests the material.
AddSpritesLayerFirst(renderOrder, material, position, overlay) ==
    IF material = NullMaterial
    THEN /\ layers' = GetLayer(layers, renderOrder)
         /\ lastOp' = [op |-> "AssertFailed", arg |-> renderOrder, call |-> "AddSprites"]
         /\ UNCHANGED <<buckets, m_billboards, poolFault, m_renderLayers, statics,
                        keyVars, peripheral>>
    ELSE /\ layers' = GetLayer(layers, renderOrder)
         /\ m_renderLayers' = RegisterLayer(m_renderLayers, renderOrder)
         /\ IF material.depthSorting
            THEN /\ depthSortedSprites' =
                        Insert(depthSortedSprites,
                               [layerIndex |-> renderOrder, material |-> material,
                                overlay |-> overlay, position |-> position])
                 /\ UNCHANGED basicSprites
            ELSE /\ basicSprites' =
                        Insert(basicSprites,
                               [layerIndex |-> renderOrder, material |-> material,
                                overlay |-> overlay, position |-> position])
                 /\ UNCHANGED depthSortedSprites
         /\ lastOp' = [op |-> "AddSprites", arg |-> renderOrder, material |-> material]
         /\ UNCHANGED <<billboards, models, depthSortedBillboards, depthSortedModels,
                        m_billboards, poolFault, statics, keyVars, peripheral>>

AddSprites(renderOrder, material, position, overlay) ==
    IF material = NullMaterial THEN NazaraAssertFailed("AddSprites", renderOrder)
    ELSE
    LET record == [layerIndex |-> renderOrder, material |-> material,
                   overlay |-> overlay, position |-> position]
    IN
    /\ layers' = GetLayer(layers, renderOrder)
    /\ m_renderLayers' = RegisterLayer(m_renderLayers, renderOrder)
    /\ IF material.depthSorting
       THEN /\ depthSortedSprites' = Insert(depthSortedSprites, record)
            /\ UNCHANGED basicSprites
       ELSE /\ basicSprites' = Insert(basicSprites, record)
            /\ UNCHANGED depthSortedSprites
    /\ lastOp' = [op |-> "AddSprites", arg |-> renderOrder, material |-> material]
    /\ UNCHANGED <<billboards, models, depthSortedBillboards, depthSortedModels,
                   m_billboards, poolFault, statics, keyVars, peripheral>>

-----------------------------------------------------------------------------
(* Clear.                                                                  *)

ClearThreshold == 100

\* The soft clear of a layer that keeps its custom drawables.
SoftClearLayerKeepingDrawables(layer) ==
    [clearCount |-> layer.clearCount + 1, otherDrawables |-> layer.otherDrawables,
     opaqueSprites |-> {}, billboards |-> {}, opaqueModels |-> {}]

\* The soft clear of a layer that leaves its clearCount alone.
SoftClearLayerWithoutCount(layer) ==
    [clearCount |-> layer.clearCount, otherDrawables |-> <<>>,
     opaqueSprites |-> {}, billboards |-> {}, opaqueModels |-> {}]

\* The soft clear of one retained layer.
SoftClearLayer(layer) ==
    [clearCount |-> layer.clearCount + 1, otherDrawables |-> <<>>,
     opaqueSprites |-> {}, billboards |-> {}, opaqueModels |-> {}]

\* Clear emptying the identity tables of Sort as well when it is a full one.
ClearWithTables(fully) ==
    /\ basicSprites' = EmptyQueue
    /\ billboards' = EmptyQueue
    /\ depthSortedBillboards' = EmptyQueue
    /\ depthSortedModels' = EmptyQueue
    /\ depthSortedSprites' = EmptyQueue
    /\ models' = EmptyQueue
    /\ m_billboards' = <<>>
    /\ poolFault' = FALSE
    /\ m_renderLayers' = {}
    /\ layers' = IF fully THEN EmptyMap
                 ELSE [i \in {k \in DOMAIN layers : layers[k].clearCount < ClearThreshold}
                          |-> SoftClearLayer(layers[i])]
    /\ lastOp' = [op |-> "Clear", arg |-> fully]
    /\ IF fully
       THEN /\ pipelines' = EmptyMap /\ materials' = EmptyMap /\ overlays' = EmptyMap
            /\ shaders' = EmptyMap /\ textures' = EmptyMap /\ vertexBuffers' = EmptyMap
            /\ UNCHANGED <<sortLayers, once>>
       ELSE UNCHANGED statics
    /\ UNCHANGED <<keyVars, peripheral>>

\* Clear leaving the billboard pool as it is.
ClearKeepingPool(fully) ==
    /\ basicSprites' = EmptyQueue
    /\ billboards' = EmptyQueue
    /\ depthSortedBillboards' = EmptyQueue
    /\ depthSortedModels' = EmptyQueue
    /\ depthSortedSprites' = EmptyQueue
    /\ models' = EmptyQueue
    /\ m_renderLayers' = {}
    /\ layers' = IF fully THEN EmptyMap
                 ELSE [i \in {k \in DOMAIN layers : layers[k].clearCount < ClearThreshold}
                          |-> SoftClearLayer(layers[i])]
    /\ lastOp' = [op |-> "Clear", arg |-> fully]
    /\ UNCHANGED <<m_billboards, poolFault, statics, keyVars, peripheral>>

Clear(fully) ==
    /\ basicSprites' = EmptyQueue
    /\ billboards' = EmptyQueue
    /\ depthSortedBillboards' = EmptyQueue
    /\ depthSortedModels' = EmptyQueue
    /\ depthSortedSprites' = EmptyQueue
    /\ models' = EmptyQueue
    /\ m_billboards' = <<>>
    /\ poolFault' = FALSE
    /\ m_renderLayers' = {}
    /\ layers' = IF fully
                 THEN EmptyMap
                 ELSE LET kept == {i \in DOMAIN layers :
                                     ~(layers[i].clearCount >= ClearThreshold)}
                      IN  [i \in kept |-> SoftClearLayer(layers[i])]
    /\ lastOp' = [op |-> "Clear", arg |-> fully]
    /\ UNCHANGED <<statics, keyVars, peripheral>>

-----------------------------------------------------------------------------
(* Sort.                                                                   *)

\* The layer table a Sort works with: the snapshot of the layer set is taken
\* by the first Sort of the process only.
LayersAtSort ==
    IF once THEN Tables
    ELSE [Tables EXCEPT !.layers = EmplaceLayers(sortLayers, m_renderLayers)]

\* Sort emptying the billboard pool and leaving the opaque billboards in
\* submission order.
SortResettingPool(viewer) ==
    \E t0 \in {LayersAtSort} :
    \E s1 \in {SortBucket("basicSprites", viewer, t0, basicSprites)} :
    \E s3 \in {SortBucket("models", viewer, s1.t, models)} :
    \E s4 \in {SortBucket("depthSortedBillboards", viewer, s3.t, depthSortedBillboards)} :
    \E s5 \in {SortBucket("depthSortedModels", viewer, s4.t, depthSortedModels)} :
    \E s6 \in {SortBucket("depthSortedSprites", viewer, s5.t, depthSortedSprites)} :
        /\ once' = TRUE
        /\ basicSprites' = s1.queue
        /\ models' = s3.queue
        /\ depthSortedBillboards' = s4.queue
        /\ depthSortedModels' = s5.queue
        /\ depthSortedSprites' = s6.queue
        /\ m_billboards' = <<>>
        /\ sortLayers' = s6.t.layers
        /\ pipelines' = s6.t.pipelines
        /\ materials' = s6.t.materials
        /\ shaders' = s6.t.shaders
        /\ textures' = s6.t.textures
        /\ overlays' = s6.t.overlays
        /\ vertexBuffers' = s6.t.vertexBuffers
        /\ lastOp' = [op |-> "Sort", arg |-> viewer.projection]
        /\ UNCHANGED <<billboards, poolFault, m_renderLayers, layers, keyVars, peripheral>>

\* ForwardRenderQueue::Sort, the buckets in the order the code sorts them.
\* SortForOrthographic and SortForPerspective, called last, sort the
\* per-layer vectors depthSortedMeshes and depthSortedSprites and the
\* billboards of the per-layer pipeline maps; no submission fills them.
Sort(viewer) ==
    \E t0 \in {LayersAtSort} :
    \E s1 \in {SortBucket("basicSprites", viewer, t0, basicSprites)} :
    \E s2 \in {SortBucket("billboards", viewer, s1.t, billboards)} :
    \E s3 \in {SortBucket("models", viewer, s2.t, models)} :
    \E s4 \in {SortBucket("depthSortedBillboards", viewer, s3.t, depthSortedBillboards)} :
    \E s5 \in {SortBucket("depthSortedModels", viewer, s4.t, depthSortedModels)} :
    \E s6 \in {SortBucket("depthSortedSprites", viewer, s5.t, depthSortedSprites)} :
        /\ once' = TRUE
        /\ basicSprites' = s1.queue
        /\ billboards' = s2.queue
        /\ models' = s3.queue
        /\ depthSortedBillboards' = s4.queue
        /\ depthSortedModels' = s5.queue
        /\ depthSortedSprites' = s6.queue
        /\ sortLayers' = s6.t.layers
        /\ pipelines' = s6.t.pipelines
        /\ materials' = s6.t.materials
        /\ shaders' = s6.t.shaders
        /\ textures' = s6.t.textures
        /\ overlays' = s6.t.overlays
        /\ vertexBuffers' = s6.t.vertexBuffers
        /\ lastOp' = [op |-> "Sort", arg |-> viewer.projection]
        /\ UNCHANGED <<m_billboards, poolFault, m_renderLayers, layers, keyVars, peripheral>>

\* ForwardRenderQueue::Sort called on a second, independent instance whose
\* models bucket holds `otherModels` (its other buckets are empty) and whose
\* active layers are `otherLayers`: the function-local statics of Sort are
\* the ones of this process, the buckets are the ones of that instance.
SortOther(viewer, otherLayers, otherModels) ==
    \E t0 \in {IF once THEN Tables
                ELSE [Tables EXCEPT !.layers = EmplaceLayers(sortLayers, otherLayers)]} :
    \E s3 \in {SortBucket("models", viewer, t0, otherModels)} :
        /\ once' = TRUE
        /\ sortLayers' = s3.t.layers
        /\ pipelines' = s3.t.pipelines
        /\ materials' = s3.t.materials
        /\ shaders' = s3.t.shaders
        /\ textures' = s3.t.textures
        /\ overlays' = s3.t.overlays
        /\ vertexBuffers' = s3.t.vertexBuffers
        /\ lastOp' = [op |-> "SortOther", arg |-> viewer.projection]
        /\ UNCHANGED <<buckets, m_billboards, poolFault, m_renderLayers, layers, keyVars, peripheral>>

-----------------------------------------------------------------------------
(* The invalidation handlers. They walk the member map `layers`: the       *)
(* pipeline/material maps of each Layer, here the sets of their entries.   *)

OnIndexBufferInvalidation(indexBuffer) ==
    /\ layers' = [i \in DOMAIN layers |->
                    [layers[i] EXCEPT !.opaqueModels =
                        {e \in @ : e.meshData.indexBuffer # indexBuffer}]]
    /\ lastOp' = [op |-> "OnIndexBufferInvalidation", arg |-> indexBuffer]
    /\ UNCHANGED <<buckets, m_billboards, poolFault, m_renderLayers, statics, keyVars, peripheral>>

\* A material handler that also empties the opaque models bucket.
OnMaterialInvalidationEmptyingModels(material) ==
    /\ layers' = [i \in DOMAIN layers |->
                    [layers[i] EXCEPT
                        !.opaqueSprites = {e \in @ : e.material # material},
                        !.billboards    = {e \in @ : e.material # material},
                        !.opaqueModels  = {e \in @ : e.material # material}]]
    /\ models' = EmptyQueue
    /\ lastOp' = [op |-> "OnMaterialInvalidation", arg |-> material.name]
    /\ UNCHANGED <<basicSprites, billboards, depthSortedSprites, depthSortedBillboards,
                   depthSortedModels, m_billboards, poolFault, m_renderLayers, statics,
                   keyVars, peripheral>>

OnMaterialInvalidation(material) ==
    /\ layers' = [i \in DOMAIN layers |->
                    [layers[i] EXCEPT
                        !.opaqueSprites = {e \in @ : e.material # material},
                        !.billboards    = {e \in @ : e.material # material},
                        !.opaqueModels  = {e \in @ : e.material # material}]]
    /\ lastOp' = [op |-> "OnMaterialInvalidation", arg |-> material.name]
    /\ UNCHANGED <<buckets, m_billboards, poolFault, m_renderLayers, statics, keyVars, peripheral>>

OnTextureInvalidation(texture) ==
    /\ layers' = [i \in DOMAIN layers |->
                    [layers[i] EXCEPT !.opaqueSprites =
                        {e \in @ : e.overlay # texture}]]
    /\ lastOp' = [op |-> "OnTextureInvalidation", arg |-> texture]
    /\ UNCHANGED <<buckets, m_billboards, poolFault, m_renderLayers, statics, keyVars, peripheral>>

OnVertexBufferInvalidation(vertexBuffer) ==
    /\ layers' = [i \in DOMAIN layers |->
                    [layers[i] EXCEPT !.opaqueModels =
                        {e \in @ : e.meshData.vertexBuffer # vertexBuffer}]]
    /\ lastOp' = [op |-> "OnVertexBufferInvalidation", arg |-> vertexBuffer]
    /\ UNCHANGED <<buckets, m_billboards, poolFault, m_renderLayers, statics, keyVars, peripheral>>

-----------------------------------------------------------------------------
(* Bounded submissions. A specification draws the arguments of the         *)
(* operations from small sets and stops submitting at a number of records. *)

RECURSIVE SumLen(_)
SumLen(seqs) == IF seqs = <<>> THEN 0 ELSE Len(Head(seqs)) + SumLen(Tail(seqs))

RECURSIVE DrawableCount(_)
DrawableCount(set) ==
    IF set = {} THEN 0
    ELSE LET i == CHOOSE x \in set : TRUE
         IN  Len(layers[i].otherDrawables) + DrawableCount(set \ {i})

\* Records, pool entries and drawables held by the queue.
RecordCount ==
    SumLen(<<basicSprites.data, billboards.data, models.data, depthSortedSprites.data,
             depthSortedBillboards.data, depthSortedModels.data, m_billboards>>)
    + DrawableCount(DOMAIN layers)

\* The queue after construction, before the first Sort of the process.
QueueInit ==
    /\ basicSprites = EmptyQueue
    /\ billboards = EmptyQueue
    /\ models = EmptyQueue
    /\ depthSortedSprites = EmptyQueue
    /\ depthSortedBillboards = EmptyQueue
    /\ depthSortedModels = EmptyQueue
    /\ m_billboards = <<>>
    /\ poolFault = FALSE
    /\ m_renderLayers = {}
    /\ layers = EmptyMap
    /\ sortLayers = EmptyMap
    /\ once = FALSE
    /\ pipelines = EmptyMap
    /\ materials = EmptyMap
    /\ overlays = EmptyMap
    /\ shaders = EmptyMap
    /\ textures = EmptyMap
    /\ vertexBuffers = EmptyMap
    /\ lastOp = [op |-> "Init", arg |-> 0]
    /\ keyA = Assembled(<<1, 0, 1, 0, 0, 0, 0, 0>>)
    /\ keyB = Assembled(<<1, 0, 1, 0, 0, 0, 0, 0>>)

\* A BoxLayout without children.
WidgetInit ==
    /\ children = <<>>
    /\ m_orientation = "Horizontal"

\* Load before the loop over the faces of a sub-mesh: faceIndices(3), no
\* index, no vertex.
LoaderInit ==
    /\ indexList = <<>>
    /\ vertexMap = EmptyMap
    /\ vertexCount = 0
    /\ faceIndices = <<0, 0, 0>>
    /\ faceCursor = 1
    /\ loadFault = FALSE

Init ==
    /\ QueueInit
    /\ WidgetInit
    /\ faces = <<>>
    /\ LoaderInit

SubmitBillboards(max, layerSet, materialSet, counts, centers) ==
    \E renderOrder \in layerSet, material \in materialSet, count \in counts :
        /\ RecordCount + (IF material.depthSorting THEN count ELSE count + 1) <= max
        /\ \E positions \in [1..count -> centers] :
              AddBillboards(renderOrder, material, count, positions,
                            "float", [i \in 1..count |-> 1],
                            "sinCos", NoStream, "Color", NoStream)

SubmitDrawable(max, layerSet, drawableSet) ==
    \E renderOrder \in layerSet, drawable \in drawableSet :
        /\ RecordCount + 1 <= max
        /\ AddDrawable(renderOrder, drawable)

SubmitMesh(max, layerSet, materialSet, meshSet, centers) ==
    \E renderOrder \in layerSet, material \in materialSet,
       meshData \in meshSet, center \in centers :
        /\ RecordCount + 1 <= max
        /\ AddMesh(renderOrder, material, meshData, center)

SubmitSprites(max, layerSet, materialSet, centers, overlaySet) ==
    \E renderOrder \in layerSet, material \in materialSet,
       position \in centers, overlay \in overlaySet :
        /\ RecordCount + 1 <= max
        /\ AddSprites(renderOrder, material, position, overlay)

SortStep == \E viewer \in Viewers : Sort(viewer)

MaxClearCount == 1

ClearStep ==
    \E fully \in BOOLEAN :
        /\ fully \/ \A i \in DOMAIN layers : layers[i].clearCount < MaxClearCount
        /\ Clear(fully)

-----------------------------------------------------------------------------
(* Spec: the frames of the queue. Every submission, Sort and Clear, on two *)
(* layers with one opaque and one depth-sorted material.                   *)

MaxRecords == 2

FrameMaterials == {MatA, MatT}
FrameMeshes == {[vertexBuffer |-> "VB1", indexBuffer |-> "IB1"]}

Next ==
    \/ SubmitBillboards(MaxRecords, LayerValues, FrameMaterials, {0, 1}, {5})
    \/ SubmitDrawable(MaxRecords, LayerValues, Drawables \cup {Null})
    \/ SubmitMesh(MaxRecords, LayerValues, FrameMaterials, FrameMeshes, {64})
    \/ SubmitSprites(MaxRecords, LayerValues, FrameMaterials, {1}, {"Tex2"})
    \/ SortStep
    \/ ClearStep

Spec == Init /\ [][Next]_vars

-----------------------------------------------------------------------------
(* InvalidationSpec: submissions, the four invalidation handlers and the   *)
(* full Clear.                                                             *)

MaxInvalidationRecords == 2

NextInvalidation ==
    \/ SubmitBillboards(MaxInvalidationRecords, LayerValues, Materials, {1}, {5})
    \/ SubmitMesh(MaxInvalidationRecords, LayerValues, Materials, MeshDatas, {1})
    \/ SubmitSprites(MaxInvalidationRecords, LayerValues, Materials, {1}, OverlayTextures)
    \/ \E material \in Materials : OnMaterialInvalidation(material)
    \/ \E texture \in OverlayTextures \ {Null} : OnTextureInvalidation(texture)
    \/ \E vertexBuffer \in VertexBufferIds : OnVertexBufferInvalidation(vertexBuffer)
    \/ \E indexBuffer \in IndexBufferIds : OnIndexBufferInvalidation(indexBuffer)
    \/ Clear(TRUE)

InvalidationSpec == Init /\ [][NextInvalidation]_vars

-----------------------------------------------------------------------------
(* DepthSpec: the depth-sorted buckets. Submissions with the depth-sorted  *)
(* material at several centres, Sort under both projections, full Clear.   *)

MaxDepthRecords == 2

NextDepth ==
    \/ SubmitBillboards(MaxDepthRecords, LayerValues, {MatT}, {1, 2}, {0, 5, 10, 64})
    \/ SubmitMesh(MaxDepthRecords, LayerValues, {MatT}, FrameMeshes, {1, 2, 64})
    \/ SubmitSprites(MaxDepthRecords, LayerValues, {MatT}, {1, 2}, {Null})
    \/ SortStep
    \/ Clear(TRUE)

DepthSpec == Init /\ [][NextDepth]_vars

-----------------------------------------------------------------------------
(* BatchSpec: the opaque buckets of models and sprites, up to three records *)
(* a frame, Sort, full Clear.                                              *)

MaxBatch == 3

NextBatch ==
    \/ SubmitMesh(MaxBatch, LayerValues, OpaqueMaterials, FrameMeshes, {1})
    \/ SubmitSprites(MaxBatch, LayerValues, {MatA}, {1}, {"Tex2"})
    \/ SortStep
    \/ Clear(TRUE)

BatchSpec == Init /\ [][NextBatch]_vars

-----------------------------------------------------------------------------
(* PoolSpec: the billboard submissions. The eight overloads of             *)
(* AddBillboards, each stream of rotations and colours present or absent,  *)
(* with both kinds of material, and the full Clear.                        *)

MaxPool == 4

\* The values the streams of a call hold: sizes, rotations (a quarter turn),
\* colours and alphas (in quarters).
StreamValues ==
    [Vector2f |-> <<<<2, 2>>, <<2, 2>>, <<2, 2>>>>,
     float    |-> <<2, 2, 2>>,
     sinCos   |-> <<<<1, 0>>, <<1, 0>>, <<1, 0>>>>,
     angle    |-> <<1, 1, 1>>,
     Color    |-> <<<<255, 0, 0, 255>>, <<255, 0, 0, 255>>, <<255, 0, 0, 255>>>>,
     alpha    |-> <<1, 2, 4>>]

SubmitBillboardStreams(max, layerSet, materialSet, counts, centers) ==
    \E renderOrder \in layerSet, material \in materialSet, count \in counts,
       sizeKind \in {"Vector2f", "float"}, rotKind \in {"sinCos", "angle"},
       colKind \in {"Color", "alpha"}, rotation \in BOOLEAN, colour \in BOOLEAN :
        /\ RecordCount + (IF material.depthSorting THEN count ELSE count + 1) <= max
        /\ \E positions \in [1..count -> centers] :
              AddBillboards(renderOrder, material, count, positions,
                            sizeKind, StreamValues[sizeKind],
                            rotKind, IF rotation THEN Stream(StreamValues[rotKind])
                                     ELSE NoStream,
                            colKind, IF colour THEN Stream(StreamValues[colKind])
                                     ELSE NoStream)

NextPool ==
    \/ SubmitBillboardStreams(MaxPool, {0}, {MatA, MatT}, 0..3, {5})
    \/ Clear(TRUE)

PoolSpec == Init /\ [][NextPool]_vars

-----------------------------------------------------------------------------
(* LayerSpec: one mesh per layer on the layers 0, 1, 2, ... and Sort, up   *)
(* to one layer more than the 4-bit layer field of the key can tell apart. *)

MaxLayers == 17

NextLayer ==
    \/ SubmitMesh(MaxLayers, {Cardinality(m_renderLayers)}, {MatA}, FrameMeshes, {64})
    \/ SortStep

LayerSpec == Init /\ [][NextLayer]_vars

-----------------------------------------------------------------------------
(* InstanceSpec: two queue instances of one process. The first submits     *)
(* opaque meshes on layer 0 and sorts; the second sorts one opaque mesh    *)
(* of its own.                                                             *)

MaxInstanceRecords == 2

OtherModels ==
    {Insert(EmptyQueue, [layerIndex |-> renderOrder, meshData |-> meshData,
                          material |-> material, obbSphere |-> 64]) :
        renderOrder \in LayerValues, material \in OpaqueMaterials,
        meshData \in FrameMeshes}

NextInstance ==
    \/ SubmitMesh(MaxInstanceRecords, {0}, OpaqueMaterials, FrameMeshes, {64})
    \/ SortStep
    \/ Clear(TRUE)
    \/ \E viewer \in Viewers, otherModels \in OtherModels :
          SortOther(viewer, {otherModels.data[1].layerIndex}, otherModels)

InstanceSpec == Init /\ [][NextInstance]_vars

-----------------------------------------------------------------------------
(* LookupSpec: the two GetOrInsert lambdas of Sort on their own, applied   *)
(* to one identity table and to resources 1..MaxLookupKeys in any order.   *)

MaxLookupKeys == 5

\* Both lambdas on the table `pipelines` and `value`; the table keeps the
\* result of the emplace variant.
Lookup(value) ==
    /\ pipelines' = GetOrInsertEmplace(pipelines, value).c
    /\ lastOp' = [op |-> "GetOrInsert", arg |-> value, before |-> pipelines,
                  emplace |-> GetOrInsertEmplace(pipelines, value),
                  find |-> GetOrInsertFind(pipelines, value)]
    /\ UNCHANGED <<buckets, m_billboards, poolFault, m_renderLayers, layers,
                   sortLayers, once, materials, overlays, shaders, textures,
                   vertexBuffers, keyVars, peripheral>>

NextLookup == \E value \in 1..MaxLookupKeys : Lookup(value)

LookupSpec == Init /\ [][NextLookup]_vars

-----------------------------------------------------------------------------
(* TableSpec: every operation of the queue, one record a frame: meshes and *)
(* sprites with each material, Sort, both kinds of Clear and the four      *)
(* invalidation handlers.                                                  *)

MaxTableRecords == 1

NextTable ==
    \/ SubmitMesh(MaxTableRecords, {0}, Materials, MeshDatas, {64})
    \/ SubmitSprites(MaxTableRecords, {0}, {MatA}, {1}, OverlayTextures)
    \/ SortStep
    \/ ClearStep
    \/ \E material \in Materials : OnMaterialInvalidation(material)
    \/ \E texture \in OverlayTextures \ {Null} : OnTextureInvalidation(texture)
    \/ \E vertexBuffer \in VertexBufferIds : OnVertexBufferInvalidation(vertexBuffer)
    \/ \E indexBuffer \in IndexBufferIds : OnIndexBufferInvalidation(indexBuffer)

TableSpec == Init /\ [][NextTable]_vars

-----------------------------------------------------------------------------
(* RetentionSpec: custom drawables on two layers and soft clears without   *)
(* bound: a layer that is not used again counts its soft clears up to the  *)
(* threshold.                                                              *)

MaxRetentionRecords == 1

NextRetention ==
    \/ SubmitDrawable(MaxRetentionRecords, LayerValues, Drawables)
    \/ Clear(FALSE)

RetentionSpec == Init /\ [][NextRetention]_vars

-----------------------------------------------------------------------------
(* DrawableSpec: AddDrawable with a drawable or with a null pointer, in    *)
(* builds with and without NAZARA_GRAPHICS_SAFE, among sprites and clears. *)

MaxDrawableRecords == 3

SubmitDrawableBuild(max, layerSet, drawableSet) ==
    \E NAZARA_GRAPHICS_SAFE \in BOOLEAN, renderOrder \in layerSet, drawable \in drawableSet :
        /\ RecordCount + 1 <= max
        /\ AddDrawableBuild(NAZARA_GRAPHICS_SAFE, renderOrder, drawable)

NextDrawable ==
    \/ SubmitDrawableBuild(MaxDrawableRecords, LayerValues, Drawables \cup {Null})
    \/ SubmitSprites(MaxDrawableRecords, LayerValues, {MatA}, {1}, {"Tex2"})
    \/ ClearStep

DrawableSpec == Init /\ [][NextDrawable]_vars

-----------------------------------------------------------------------------
(* PreconditionSpec: the submissions that take a material, called with a   *)
(* material or with the null pointer, and Clear.                           *)

MaxPreconditionRecords == 3

NextPrecondition ==
    \/ SubmitBillboardStreams(MaxPreconditionRecords, LayerValues, {MatA, NullMaterial}, {1}, {5})
    \/ SubmitMesh(MaxPreconditionRecords, LayerValues, {MatA, NullMaterial}, FrameMeshes, {64})
    \/ SubmitSprites(MaxPreconditionRecords, LayerValues, {MatT, NullMaterial}, {1}, {"Tex2"})
    \/ ClearStep

PreconditionSpec == Init /\ [][NextPrecondition]_vars

-----------------------------------------------------------------------------
(* HotSpec: custom drawables and sprites on two layers between soft clears *)
(* without bound: a layer counts the soft clears since its last use.       *)

MaxHotRecords == 1

NextHot ==
    \/ SubmitDrawable(MaxHotRecords, LayerValues, Drawables)
    \/ SubmitSprites(MaxHotRecords, {0}, {MatA}, {1}, {Null})
    \/ Clear(FALSE)

HotSpec == Init /\ [][NextHot]_vars

-----------------------------------------------------------------------------
(* HandlerSpec: the four invalidation handlers on frames of two records on *)
(* layer 0 (opaque billboards, meshes, sprites), with Sort and both kinds  *)
(* of Clear.                                                               *)

MaxHandlerRecords == 2

NextHandler ==
    \/ SubmitBillboards(MaxHandlerRecords, {0}, {MatA}, {1}, {5})
    \/ SubmitMesh(MaxHandlerRecords, {0}, {MatB}, MeshDatas, {1})
    \/ SubmitSprites(MaxHandlerRecords, {0}, {MatA}, {1}, OverlayTextures)
    \/ SortStep
    \/ ClearStep
    \/ \E material \in OpaqueMaterials : OnMaterialInvalidation(material)
    \/ \E texture \in OverlayTextures \ {Null} : OnTextureInvalidation(texture)
    \/ \E vertexBuffer \in {"VB1"} : OnVertexBufferInvalidation(vertexBuffer)
    \/ \E indexBuffer \in IndexBufferIds : OnIndexBufferInvalidation(indexBuffer)

HandlerSpec == Init /\ [][NextHandler]_vars

-----------------------------------------------------------------------------
(* Single-precision arithmetic. A non-negative float is m * 2^e with m = 0 *)
(* or 2^23 <= m < 2^24; sums and quotients are rounded to nearest, ties to *)
(* even, as the float operators of the build do.                           *)

FloatZero == [m |-> 0, e |-> 0]

\* The float nearest to (M + f) * 2^e, where 0 <= f < 1 and f > 0 iff
\* sticky; M carries at least two bits below the 24 kept when sticky.
RoundFloat(M, e, sticky) ==
    LET width == Log2Floor(M)
    IN  IF width <= 23
        THEN [m |-> M * Pow2(23 - width), e |-> e - (23 - width)]
        ELSE LET shift == width - 23
                 q     == M \div Pow2(shift)
                 r     == M % Pow2(shift)
                 half  == Pow2(shift - 1)
                 up    == r > half \/ (r = half /\ (sticky \/ q % 2 = 1))
                 q1    == IF up THEN q + 1 ELSE q
             IN  IF q1 = Pow2(24)
                 THEN [m |-> Pow2(23), e |-> e + shift + 1]
                 ELSE [m |-> q1, e |-> e + shift]

\* float(n) for a small natural n.
ToFloat(n) == IF n = 0 THEN FloatZero ELSE RoundFloat(n, 0, FALSE)

\* a + b in float: the operand with the smaller exponent is aligned with
\* three guard bits and a sticky bit.
FloatAdd(a, b) ==
    IF a.m = 0 THEN b
    ELSE IF b.m = 0 THEN a
    ELSE LET hi == IF a.e >= b.e THEN a ELSE b
             lo == IF a.e >= b.e THEN b ELSE a
             d  == hi.e - lo.e
             aligned == IF d >= 27 THEN 0 ELSE (lo.m * 8) \div Pow2(d)
             sticky  == IF d >= 27 THEN TRUE ELSE (lo.m * 8) % Pow2(d) # 0
         IN  RoundFloat(hi.m * 8 + aligned, hi.e - 3, sticky)

\* a / float(n) for a count 1 <= n <= 16.
FloatDivide(a, n) ==
    IF a.m = 0 THEN FloatZero
    ELSE RoundFloat((a.m * 64) \div n, a.e - 6, (a.m * 64) % n # 0)

\* a < b.
FloatLess(a, b) ==
    IF b.m = 0 THEN FALSE
    ELSE IF a.m = 0 THEN TRUE
    ELSE a.e < b.e \/ (a.e = b.e /\ a.m < b.m)

-----------------------------------------------------------------------------
(* BoxLayout::Layout. A child is its position and its size, both Vector2f. *)

\* The first loop: size += child->GetSize() over the first n children, from
\* Vector2f::Zero().
RECURSIVE SumOfSizes(_, _)
SumOfSizes(widgets, n) ==
    IF n = 0 THEN <<FloatZero, FloatZero>>
    ELSE LET size == SumOfSizes(widgets, n - 1)
         IN  <<FloatAdd(size[1], widgets[n].size[1]),
               FloatAdd(size[2], widgets[n].size[2])>>

\* A widgetSize taken from the first child instead of the mean.
WidgetSizeOfFirstChild(widgets) == widgets[1].size

\* widgetSize = size / float(childCount)
WidgetSize(widgets) ==
    LET size == SumOfSizes(widgets, Len(widgets))
    IN  <<FloatDivide(size[1], Len(widgets)), FloatDivide(size[2], Len(widgets))>>

\* The cursor when the i-th child (from 1) is placed: 0.f, then
\* cursor += step after every child.
RECURSIVE CursorAt(_, _)
CursorAt(i, step) == IF i = 1 THEN FloatZero ELSE FloatAdd(CursorAt(i - 1, step), step)

\* The second loop of the case BoxLayoutOrientation_Horizontal:
\* SetPosition(0.f, cursor), SetSize(widgetSize), cursor += widgetSize.x.
PlaceHorizontal(widgets, widgetSize) ==
    [i \in 1..Len(widgets) |->
        [position |-> <<FloatZero, CursorAt(i, widgetSize[1])>>, size |-> widgetSize]]

\* The second loop of the case BoxLayoutOrientation_Vertical:
\* SetPosition(cursor, 0.f), SetSize(widgetSize), cursor += widgetSize.y.
PlaceVertical(widgets, widgetSize) ==
    [i \in 1..Len(widgets) |->
        [position |-> <<CursorAt(i, widgetSize[2]), FloatZero>>, size |-> widgetSize]]

\* BoxLayout::Layout. Without a child the quotient is not a number and no
\* child is there to receive it.
Layout ==
    /\ IF children = <<>>
       THEN UNCHANGED children
       ELSE \E widgetSize \in {WidgetSize(children)} :
               children' = IF m_orientation = "Horizontal"
                           THEN PlaceHorizontal(children, widgetSize)
                           ELSE PlaceVertical(children, widgetSize)
    /\ lastOp' = [op |-> "Layout", arg |-> m_orientation]
    /\ UNCHANGED <<buckets, m_billboards, poolFault, m_renderLayers, layers, statics,
                   keyVars, m_orientation, loaderVars>>

-----------------------------------------------------------------------------
(* LayoutSpec: a box of either orientation with up to seven children of    *)
(* width 1 or 2 and height 3, laid out any number of times.                *)

MaxChildren == 7

ChildSizes == {<<ToFloat(1), ToFloat(3)>>, <<ToFloat(2), ToFloat(3)>>}

Orientations == {"Horizontal", "Vertical"}

LayoutInit ==
    /\ QueueInit
    /\ \E n \in 0..MaxChildren : \E sizes \in [1..n -> ChildSizes] :
          children = [i \in 1..n |-> [position |-> <<FloatZero, FloatZero>>,
                                      size |-> sizes[i]]]
    /\ m_orientation \in Orientations
    /\ faces = <<>>
    /\ LoaderInit

NextLayout == Layout

LayoutSpec == LayoutInit /\ [][NextLayout]_vars

-----------------------------------------------------------------------------
(* The OBJ loader: the loop of Load over the faces of one sub-mesh. A face *)
(* is the sequence of the FaceVertex of its corners, i.e. the slice        *)
(* vertices[firstVertex .. firstVertex + vertexCount) of the parsed mesh.  *)
(* A UInt32 is a pair of 16-bit halves, high half first.                   *)

ToUInt32(n) == <<(n \div 65536) % 65536, n % 65536>>

\* a - b modulo 2^32.
SubUInt32(a, b) ==
    LET borrow == IF a[2] < b[2] THEN 1 ELSE 0
    IN  <<(a[1] + 65536 - b[1] - borrow) % 65536, (a[2] + 65536 - b[2]) % 65536>>

LessUInt32(a, b) == a[1] < b[1] \/ (a[1] = b[1] /\ a[2] < b[2])

\* The loop over k < faceVertexCount on the first n corners of the face:
\* find the FaceVertex in the map or emplace it with vertexCount++, and
\* store its index in faceIndices[k].
RECURSIVE ResolveFace(_, _, _, _)
ResolveFace(face, map, count, n) ==
    IF n = 0 THEN [vertices |-> map, vertexCount |-> count, faceIndices |-> <<>>]
    ELSE LET before == ResolveFace(face, map, count, n - 1)
             vertex == face[n]
             found  == vertex \in DOMAIN before.vertices
             after  == IF found THEN before.vertices
                       ELSE before.vertices @@ (vertex :> before.vertexCount)
         IN  [vertices    |-> after,
              vertexCount |-> IF found THEN before.vertexCount
                              ELSE before.vertexCount + 1,
              faceIndices |-> Append(before.faceIndices, after[vertex])]

\* The triangulation loop from k on: for (k; k < faceVertexCount-1; ++k)
\* push faceIndices[0], faceIndices[k], faceIndices[k+1]. `bound` is the
\* UInt32 faceVertexCount-1; fault tells that an element outside the vector
\* was read, and the loop is followed up to that read.
RECURSIVE Triangulate(_, _, _)
Triangulate(corners, k, bound) ==
    IF ~LessUInt32(ToUInt32(k), bound) THEN [indices |-> <<>>, fault |-> FALSE]
    ELSE IF k + 1 >= Len(corners) THEN [indices |-> <<>>, fault |-> TRUE]
    ELSE LET rest == Triangulate(corners, k + 1, bound)
         IN  [indices |-> <<corners[1], corners[k + 1], corners[k + 2]>> \o rest.indices,
              fault   |-> rest.fault]

\* What a read outside faceIndices may give: the zero the vector was built
\* with, or any other word.
OutsideValues == {0, 7}

\* One iteration of the loop over the faces (j). A read outside the vector
\* is undefined: the iteration pushes three words that are not indices of
\* the face, or ends the load before it pushes any.
LoadFace ==
    /\ ~loadFault
    /\ faceCursor <= Len(faces)
    /\ \E r \in {ResolveFace(faces[faceCursor], vertexMap, vertexCount,
                             Len(faces[faceCursor]))} :
       \E t \in {Triangulate(r.faceIndices, 1,
                             SubUInt32(ToUInt32(Len(r.faceIndices)), ToUInt32(1)))} :
          /\ vertexMap' = r.vertices
          /\ vertexCount' = r.vertexCount
          /\ faceIndices' = r.faceIndices
          /\ loadFault' = t.fault
          /\ IF t.fault
             THEN \E read \in [1..3 -> OutsideValues] \cup {<<>>} :
                     indexList' = indexList \o t.indices \o read
             ELSE indexList' = indexList \o t.indices
    /\ faceCursor' = faceCursor + 1
    /\ lastOp' = [op |-> "LoadFace", arg |-> Len(faces[faceCursor])]
    /\ UNCHANGED <<buckets, m_billboards, poolFault, m_renderLayers, layers, statics,
                   keyVars, widgetVars, faces>>

-----------------------------------------------------------------------------
(* LoaderSpec: sub-meshes of up to two faces of zero to four corners each, *)
(* the corners drawn from three FaceVertex, two of which share their       *)
(* position.                                                               *)

MaxFaces == 2
MaxFaceVertices == 4

FaceVertices ==
    {[position |-> 1, normal |-> 1, texCoord |-> 1],
     [position |-> 1, normal |-> 2, texCoord |-> 1],
     [position |-> 2, normal |-> 1, texCoord |-> 1]}

LoaderSpecInit ==
    /\ QueueInit
    /\ WidgetInit
    /\ \E n \in 0..MaxFaces :
          faces \in [1..n -> UNION {[1..k -> FaceVertices] : k \in 0..MaxFaceVertices}]
    /\ LoaderInit

NextLoader == LoadFace

LoaderSpec == LoaderSpecInit /\ [][NextLoader]_vars

-----------------------------------------------------------------------------
(* KeySpec: the identity-key assembler on its own, applied to two tuples   *)
(* of indices. An identity table of a long-lived process holds more than   *)
(* 256 entries, and the layer table more than 16, so the indices are drawn *)
(* from both sides of the field widths; scissor and depth are the zeros    *)
(* Sort passes.                                                            *)

FieldValues ==
    <<{1, 16}, {0, 1}, {1, 256}, {0, 1}, {0, 1}, {0, 1}>>

\* One of the two tuples gets another index in one of its fields and is
\* assembled again.
Assemble ==
    /\ \E field \in DOMAIN FieldValues : \E value \in FieldValues[field] :
          \/ /\ keyA' = Assembled([keyA.indices EXCEPT ![field] = value])
             /\ UNCHANGED keyB
          \/ /\ keyB' = Assembled([keyB.indices EXCEPT ![field] = value])
             /\ UNCHANGED keyA
    /\ UNCHANGED <<buckets, m_billboards, poolFault, m_renderLayers, layers, statics,
                   lastOp, peripheral>>

KeySpec == Init /\ [][Assemble]_vars

-----------------------------------------------------------------------------
(* Properties of the sorted buckets.                                       *)

AllBuckets == <<basicSprites, billboards, models,
                depthSortedSprites, depthSortedBillboards, depthSortedModels>>

Sorted == lastOp.op = "Sort"

\* The viewer of the last Sort.
LastViewer == CHOOSE v \in Viewers : v.projection = lastOp.arg

\* The layers of the records the buckets hold, and the rank of a layer
\* among them.
FrameLayers ==
    UNION {{AllBuckets[b].data[i].layerIndex : i \in 1..Len(AllBuckets[b].data)} :
              b \in 1..Len(AllBuckets)}

CompactIndex(layer) == Cardinality({l \in FrameLayers : l < layer})

LayerMonotone(queue) ==
    LET out == Ordered(queue)
    IN  \A i, j \in 1..Len(out) : out[i].layerIndex < out[j].layerIndex => i < j

\* C1: after Sort, in every bucket, a record of a lower layer precedes every
\* record of a higher layer, in every frame.
LayerMonotonicity ==
    Sorted => \A b \in 1..Len(AllBuckets) : LayerMonotone(AllBuckets[b])

\* C2: after OnMaterialInvalidation(M) no record of any bucket references M.
MaterialInvalidationSound ==
    lastOp.op = "OnMaterialInvalidation" =>
        \A b \in 1..Len(AllBuckets) : \A i \in 1..Len(AllBuckets[b].data) :
            AllBuckets[b].data[i].material.name # lastOp.arg

\* C3: after OnTextureInvalidation(T) no sprite record has overlay T; after
\* OnVertexBufferInvalidation(V) no model record has vertex buffer V; after
\* OnIndexBufferInvalidation(I) no model record has index buffer I.
ResourceInvalidationSound ==
    /\ lastOp.op = "OnTextureInvalidation" =>
          \A q \in {basicSprites, depthSortedSprites} : \A i \in 1..Len(q.data) :
              q.data[i].overlay # lastOp.arg
    /\ lastOp.op = "OnVertexBufferInvalidation" =>
          \A q \in {models, depthSortedModels} : \A i \in 1..Len(q.data) :
              q.data[i].meshData.vertexBuffer # lastOp.arg
    /\ lastOp.op = "OnIndexBufferInvalidation" =>
          \A q \in {models, depthSortedModels} : \A i \in 1..Len(q.data) :
              q.data[i].meshData.indexBuffer # lastOp.arg

\* Within a layer, the record with the greater distance comes first.
BackToFront(out, Distance(_)) ==
    \A i, j \in 1..Len(out) :
        (out[i].layerIndex = out[j].layerIndex /\ Distance(out[i]) > Distance(out[j]))
            => i < j

\* C4: after Sort with a perspective viewer, two depth-sorted models (resp.
\* depth-sorted sprites) of one layer come farther first by squared distance
\* from the eye.
PerspectiveBackToFront ==
    (Sorted /\ lastOp.arg = "Perspective") =>
        LET ModelDistance(r) == SquaredDistance(LastViewer, r.obbSphere)
            SpriteDistance(r) == SquaredDistance(LastViewer, r.position)
        IN  /\ BackToFront(Ordered(depthSortedModels), ModelDistance)
            /\ BackToFront(Ordered(depthSortedSprites), SpriteDistance)

\* C5: after Sort with an orthographic viewer, two transparent records of one
\* layer come farther first by distance to the near plane.
OrthographicBackToFront ==
    (Sorted /\ lastOp.arg = "Orthogonal") =>
        LET ModelDistance(r) == PlaneDistance(LastViewer, r.obbSphere)
            SpriteDistance(r) == PlaneDistance(LastViewer, r.position)
            BillboardDistance(r) == PlaneDistance(LastViewer, r.data.center)
        IN  /\ BackToFront(Ordered(depthSortedModels), ModelDistance)
            /\ BackToFront(Ordered(depthSortedSprites), SpriteDistance)
            /\ BackToFront(Ordered(depthSortedBillboards), BillboardDistance)

\* The depth the specification selects for a centre: near-plane distance
\* under an orthographic projection, squared distance from the eye otherwise.
SelectedDepth(viewer, center) ==
    IF viewer.projection = "Orthogonal"
    THEN PlaneDistance(viewer, center)
    ELSE SquaredDistance(viewer, center)

\* C6: a depth-sorted billboard gets the key a depth-sorted sprite at its
\* centre gets (the same selection of the depth metric), and billboards of
\* one layer come farther first by that metric.
BillboardDepthSelection ==
    Sorted =>
        LET BillboardDistance(r) == SelectedDepth(LastViewer, r.data.center)
        IN  /\ \A i \in 1..Len(depthSortedBillboards.ordered) :
                  LET e == depthSortedBillboards.ordered[i]
                      r == depthSortedBillboards.data[e.index]
                  IN  e.key = DepthSortedSpriteIndex(LastViewer, Tables,
                                  [layerIndex |-> r.layerIndex,
                                   position |-> r.data.center]).key
            /\ BackToFront(Ordered(depthSortedBillboards), BillboardDistance)

\* [layer:4 | ~depth:32 | 0:28] for a 32-bit pattern below 2^31.
InvertedDepthKey(layerIndex, depthBits) ==
    LET D(i) == IF i = 1 THEN layerIndex % 16
                ELSE IF i <= 9 THEN 15 - DigitOf(depthBits, 9 - i)
                ELSE 0
    IN  Word(D)

DepthKeysOf(queue, Depth(_)) ==
    \A i \in 1..Len(queue.ordered) :
        LET e == queue.ordered[i]
            r == queue.data[e.index]
        IN  e.key = InvertedDepthKey(sortLayers[r.layerIndex], FloatBits(Depth(r)))

\* C7: the key of every transparent record is the layer index in bits
\* 60..63, the complement of the 32-bit pattern of its depth in bits 28..59
\* and zero in bits 0..27.
DepthKeyLayout ==
    Sorted =>
        LET OfBillboard(r) == BillboardDepth(LastViewer, r)
            OfModel(r) == ModelDepth(LastViewer, r)
            OfSprite(r) == SpriteDepth(LastViewer, r)
        IN  /\ DepthKeysOf(depthSortedBillboards, OfBillboard)
            /\ DepthKeysOf(depthSortedModels, OfModel)
            /\ DepthKeysOf(depthSortedSprites, OfSprite)

\* The 4-bit prefixes of the keys of the records of layer `layer`.
Prefixes(layer) ==
    UNION {{AllBuckets[b].ordered[i].key[1] :
               i \in {k \in 1..Len(AllBuckets[b].ordered) :
                        AllBuckets[b].data[AllBuckets[b].ordered[k].index].layerIndex
                            = layer}} :
              b \in 1..Len(AllBuckets)}

\* C8: within one Sort the top 4 bits of the key of every record of every
\* bucket are the compact index of the record's layer, so the records of one
\* layer carry one prefix in all buckets.
LayerPrefixConsistency ==
    Sorted => \A layer \in FrameLayers : Prefixes(layer) = {CompactIndex(layer)}

\* The resources an opaque record is batched by.
BatchTuple(r) ==
    <<r.material.pipeline, r.material.name, r.material.shader, r.material.diffuseMap,
      IF "overlay" \in DOMAIN r THEN r.overlay
      ELSE IF "meshData" \in DOMAIN r THEN r.meshData.vertexBuffer
      ELSE Null>>

Batched(queue) ==
    LET out == Ordered(queue)
    IN  \A i, j, k \in 1..Len(out) :
            (i < k /\ k < j /\ out[i].layerIndex = out[j].layerIndex
                   /\ BatchTuple(out[i]) = BatchTuple(out[j]))
                => (out[k].layerIndex = out[i].layerIndex
                    /\ BatchTuple(out[k]) = BatchTuple(out[i]))

\* C9: after Sort, in each opaque bucket, between two records of one layer
\* with the same (pipeline, material, shader, texture, secondary resource)
\* lies no record of another layer or another tuple.
OpaqueBatching ==
    Sorted => /\ Batched(basicSprites)
              /\ Batched(billboards)
              /\ Batched(models)

RECURSIVE LexLess(_, _, _)
LexLess(a, b, i) ==
    IF i > Len(a) THEN FALSE
    ELSE IF a[i] # b[i] THEN a[i] < b[i]
    ELSE LexLess(a, b, i + 1)

\* The indices as the fields of the key hold them.
Masked(indices) ==
    <<indices[1] % 16, indices[2] % 256, indices[3] % 256, indices[4] % 256,
      indices[5] % 256, indices[6] % 256, indices[7] % 16, indices[8] % 65536>>

\* C10 as stated: two identity keys compare as unsigned integers the way
\* the tuples (layer, pipeline, material, shader, texture, secondary,
\* scissor, 0) of table indices compare lexicographically.
IdentityKeyOrderOfIndices ==
    Less64(keyA.key, keyB.key) <=> LexLess(keyA.indices, keyB.indices, 1)

\* C10 amended: two identity keys compare as unsigned integers the way the
\* tuples of the indices reduced to their field widths (layer modulo 16,
\* the identity indices modulo 256) compare lexicographically.
IdentityKeyOrder ==
    /\ Less64(keyA.key, keyB.key)
          <=> LexLess(Masked(keyA.indices), Masked(keyB.indices), 1)
    /\ keyA.key = keyB.key <=> Masked(keyA.indices) = Masked(keyB.indices)

\* A material index beyond its field against a smaller one that fits, layer
\* and pipeline equal: the key of the greater index is the lower one.
IdentityKeyOrderWitness ==
    /\ keyA.indices[1] = keyB.indices[1]
    /\ keyA.indices[2] = keyB.indices[2]
    /\ keyA.indices[3] = 256
    /\ keyB.indices[3] = 1
    /\ Less64(keyA.key, keyB.key)

-----------------------------------------------------------------------------
(* Properties of the sort order and of the submissions.                    *)

StableOrder(queue) ==
    \A i, j \in 1..Len(queue.ordered) :
        (i < j /\ queue.ordered[i].key = queue.ordered[j].key)
            => queue.ordered[i].index < queue.ordered[j].index

OpaqueBillboardsAdded ==
    lastOp.op = "AddBillboards" /\ ~lastOp.material.depthSorting

TransparentBillboardsAdded ==
    lastOp.op = "AddBillboards" /\ lastOp.material.depthSorting

\* C12: AddBillboards with a material without depth sorting and n instances
\* grows the pool by n, inserts one batch descriptor with offset = the pool
\* size before the call and count = n, and the pool entry at offset + i holds
\* the i-th instance.
OpaqueBillboardSubmission ==
    [][OpaqueBillboardsAdded' =>
          LET n == Len(lastOp'.instances)
              offset == Len(m_billboards)
          IN  /\ Len(m_billboards') = offset + n
              /\ billboards'.data =
                    Append(billboards.data,
                           [layerIndex |-> lastOp'.arg, material |-> lastOp'.material,
                            billboardCount |-> n, billboardIndex |-> offset])
              /\ \A i \in 1..n : m_billboards'[offset + i] = lastOp'.instances[i]]_vars

\* C13: an AddBillboards call on the opaque path touches only the pool
\* indices from the old pool size up to the old pool size plus count, and
\* never an index outside the vector.
PoolAccessInBounds ==
    [][OpaqueBillboardsAdded' =>
          LET n == Len(lastOp'.instances)
              old == Len(m_billboards)
          IN  /\ ~poolFault'
              /\ \A i \in 1..n : WriteStart(old, n) + i - 1 \in old..(old + n - 1)]_vars

\* C14: between two Clear calls no operation shrinks the billboard pool and
\* no AddBillboards call changes an entry of the pool that an earlier batch
\* holds.
PoolAppendOnly ==
    [][lastOp'.op # "Clear" =>
          /\ Len(m_billboards') >= Len(m_billboards)
          /\ \A i \in 1..Len(m_billboards) : m_billboards'[i] = m_billboards[i]]_vars

\* The instances of the last AddBillboards call as the queue holds them: the
\* pool range of the batch inserted last, or the data of the depth-sorted
\* records inserted last.
LastInstances ==
    IF lastOp.material.depthSorting
    THEN LET n == Len(lastOp.instances)
             first == Len(depthSortedBillboards.data) - n
         IN  [i \in 1..n |-> depthSortedBillboards.data[first + i].data]
    ELSE LET batch == billboards.data[Len(billboards.data)]
         IN  [i \in 1..batch.billboardCount |-> m_billboards[batch.billboardIndex + i]]

\* C15: after an AddBillboards call without rotation stream every instance
\* of the call has (sin, cos) = (0, 1); without colour or alpha stream every
\* instance is white with alpha 1.
BillboardStreamDefaults ==
    lastOp.op = "AddBillboards" =>
        \A i \in 1..Len(LastInstances) :
            /\ ~lastOp.rotation => LastInstances[i].sinCos = <<0, 1>>
            /\ ~lastOp.colour => LastInstances[i].color = White

\* C16: AddBillboards with a depth-sorted material and n instances appends n
\* records to the depth-sorted billboards, the i-th with the data of the
\* i-th instance, and leaves the pool and the opaque billboards unchanged.
TransparentBillboardFanOut ==
    [][TransparentBillboardsAdded' =>
          /\ depthSortedBillboards'.data =
                depthSortedBillboards.data
                    \o [i \in 1..Len(lastOp'.instances) |->
                           [layerIndex |-> lastOp'.arg, material |-> lastOp'.material,
                            data |-> lastOp'.instances[i]]]
          /\ m_billboards' = m_billboards
          /\ poolFault' = poolFault
          /\ billboards' = billboards]_vars

\* Two depth-sorted instances with different alphas added to a queue that
\* holds an opaque batch and a depth-sorted billboard already.
TransparentBillboardFanOutWitness ==
    /\ TransparentBillboardsAdded
    /\ Len(lastOp.instances) = 2
    /\ lastOp.instances[1] # lastOp.instances[2]
    /\ Len(depthSortedBillboards.data) = 3
    /\ depthSortedBillboards.data[2].data = lastOp.instances[1]
    /\ depthSortedBillboards.data[3].data = lastOp.instances[2]
    /\ Len(billboards.data) = 1

\* The six buckets by name, and the bucket an AddMesh or AddSprites call with
\* the given material is to fill.
BucketsByName ==
    [basicSprites |-> basicSprites, billboards |-> billboards, models |-> models,
     depthSortedSprites |-> depthSortedSprites,
     depthSortedBillboards |-> depthSortedBillboards,
     depthSortedModels |-> depthSortedModels]

TargetBucket(op, material) ==
    IF op = "AddMesh"
    THEN (IF material.depthSorting THEN "depthSortedModels" ELSE "models")
    ELSE (IF material.depthSorting THEN "depthSortedSprites" ELSE "basicSprites")

\* C17: AddMesh and AddSprites append exactly one record, of the layer and
\* the material of the call, to the depth-sorted bucket of their kind when
\* the material has depth sorting and to the opaque bucket of their kind
\* otherwise; the five other buckets and the billboard pool do not change.
SingleRecordInsertion ==
    [][lastOp'.op \in {"AddMesh", "AddSprites"} =>
          /\ \A name \in DOMAIN BucketsByName :
                 IF name = TargetBucket(lastOp'.op, lastOp'.material)
                 THEN \E record \in {BucketsByName'[name].data[Len(BucketsByName[name].data) + 1]} :
                         /\ BucketsByName'[name].data = Append(BucketsByName[name].data, record)
                         /\ record.layerIndex = lastOp'.arg
                         /\ record.material = lastOp'.material
                 ELSE BucketsByName'[name] = BucketsByName[name]
          /\ m_billboards' = m_billboards]_vars

\* A depth-sorted mesh added to a queue that holds an opaque sprite: the
\* mesh is the only depth-sorted model and the sprite is still there.
SingleRecordInsertionWitness ==
    /\ lastOp.op = "AddMesh"
    /\ lastOp.material.depthSorting
    /\ Len(depthSortedModels.data) = 1
    /\ depthSortedModels.data[1].material = lastOp.material
    /\ Len(basicSprites.data) = 1
    /\ models.data = <<>>

\* C18: after a submission the layer of the call is in the set of active
\* layers that Sort snapshots (AddDrawable of a null drawable is rejected and
\* is no submission).
LayerRegistration ==
    (\/ lastOp.op \in {"AddBillboards", "AddMesh", "AddSprites"}
     \/ (lastOp.op = "AddDrawable" /\ lastOp.drawable # Null))
        => lastOp.arg \in m_renderLayers

\* C19: after every Sort the layer table Sort used gives each active layer
\* its rank among the active layers.
LayerSnapshot ==
    Sorted => \A layer \in m_renderLayers :
                 /\ layer \in DOMAIN sortLayers
                 /\ sortLayers[layer] = Cardinality({l \in m_renderLayers : l < layer})

\* C20: Sort with more than 16 active layers does not give the records of
\* two distinct layers the same 4-bit prefix (the queue reports the overflow
\* instead).
LayerOverflowReported ==
    (Sorted /\ Cardinality(m_renderLayers) > 16)
        => \A l1, l2 \in FrameLayers :
               l1 # l2 => Prefixes(l1) \cap Prefixes(l2) = {}

-----------------------------------------------------------------------------
(* Properties of the identity tables, of Clear and of the preconditions.   *)

\* The order, as indices into the bucket, in which Sort puts the models
\* `queue` when the statics hold the tables `t` (the buckets sorted before
\* the models being empty).
ModelsOrder(viewer, t, queue) ==
    LET sorted == SortBucket("models", viewer, t, queue).queue
    IN  [i \in 1..Len(sorted.ordered) |-> sorted.ordered[i].index]

\* C21: a Sort of a second, independent queue instance does not change the
\* order the first queue produces for its models.
InstanceIsolation ==
    [][lastOp'.op = "SortOther" =>
          \A viewer \in Viewers :
              ModelsOrder(viewer, LayersAtSort', models')
                  = ModelsOrder(viewer, LayersAtSort, models)]_vars

SubmittedAThenB ==
    /\ Len(models.data) = 3
    /\ models.data[1].layerIndex = 0
    /\ models.data[2].layerIndex = 0
    /\ models.data[3].layerIndex = 1
    /\ models.data[3].material = models.data[1].material
    /\ models.data[2].material # models.data[1].material
    /\ materials[models.data[1].material] < materials[models.data[2].material]
    /\ pipelines[models.data[1].material.pipeline]
          < pipelines[models.data[2].material.pipeline]

\* C23: material A being met before material B, the models (layer 0, A),
\* (layer 0, B), (layer 1, A) submitted in that order come out of Sort as
\* [(0, A), (0, B), (1, A)].
SubmissionOrderOfIndices ==
    (Sorted /\ SubmittedAThenB)
        => [i \in 1..3 |-> models.ordered[i].index] = <<1, 2, 3>>

\* C24: every index is folded into its own field of the key: the first hex
\* digit is the layer index modulo 16, the next five pairs of digits are
\* the pipeline, material, shader, texture and secondary index modulo 256,
\* then the scissor digit and the 16 depth bits; an index beyond its width
\* changes no other field.
IndexFolding ==
    \A operand \in {keyA, keyB} :
        /\ operand.key[1] = operand.indices[1] % 16
        /\ \A field \in 2..6 :
               16 * operand.key[2 * field - 2] + operand.key[2 * field - 1]
                   = operand.indices[field] % 256
        /\ operand.key[12] = operand.indices[7] % 16
        /\ ((operand.key[13] * 16 + operand.key[14]) * 16 + operand.key[15]) * 16
               + operand.key[16] = operand.indices[8] % 65536

\* The material index 256 under layer 1 and pipeline 0: the layer digit and
\* the pipeline digits are those of 1 and 0.
IndexFoldingWitness ==
    /\ keyA.indices[1] = 1
    /\ keyA.indices[2] = 0
    /\ keyA.indices[3] = 256
    /\ keyA.key[1] = 1
    /\ keyA.key[2] = 0 /\ keyA.key[3] = 0
    /\ keyB.indices[1] = 16
    /\ keyB.key[1] = 0

IdentityTableNames ==
    {"pipelines", "materials", "shaders", "textures", "overlays", "vertexBuffers"}

\* C25: no operation removes a key from an identity table or changes the
\* index of a key.
TablesMonotone ==
    [][\A name \in IdentityTableNames :
          /\ DOMAIN Tables[name] \subseteq DOMAIN Tables'[name]
          /\ \A key \in DOMAIN Tables[name] : Tables'[name][key] = Tables[name][key]]_vars

\* A full Clear with two materials in the table.
TablesMonotoneWitness ==
    /\ lastOp.op = "Clear"
    /\ lastOp.arg
    /\ Size(materials) = 2
    /\ Size(vertexBuffers) = 2

\* C26: after Clear, whatever the state it was called in, the six buckets
\* (records and sort order), the custom drawables of every layer and the
\* billboard pool are empty and no layer is active; after Clear(true) the
\* map of the layers is empty too.
ClearEmptiesFrame ==
    lastOp.op = "Clear" =>
        /\ \A b \in 1..Len(AllBuckets) : AllBuckets[b] = EmptyQueue
        /\ \A i \in DOMAIN layers : layers[i].otherDrawables = <<>>
        /\ m_billboards = <<>>
        /\ m_renderLayers = {}
        /\ lastOp.arg => layers = EmptyMap

\* A soft Clear after a Sort that retained the two layers.
ClearEmptiesFrameWitness ==
    /\ lastOp.op = "Clear"
    /\ ~lastOp.arg
    /\ once
    /\ DOMAIN layers = {0, 1}

\* C27: a soft Clear adds one to the clearCount of every layer it keeps, it
\* keeps a layer while that count does not exceed the threshold of 100 and
\* removes the layer when it does: a layer that is not used survives 100
\* soft clears and the 101st removes it.
SoftClearRetention ==
    [][(lastOp'.op = "Clear" /\ ~lastOp'.arg) =>
          /\ \A i \in DOMAIN layers :
                 IF layers[i].clearCount + 1 > 100
                 THEN i \notin DOMAIN layers'
                 ELSE /\ i \in DOMAIN layers'
                      /\ layers'[i].clearCount = layers[i].clearCount + 1
          /\ DOMAIN layers' \subseteq DOMAIN layers]_vars

\* Layer 0 after its 100th soft clear in a row, layer 1 after its first.
SoftClearRetentionWitness ==
    /\ lastOp.op = "Clear"
    /\ ~lastOp.arg
    /\ DOMAIN layers = {0, 1}
    /\ layers[0].clearCount = 100
    /\ layers[1].clearCount = 1

\* The step appends `drawable` to the custom drawables of layer
\* `renderOrder`, created if the queue had no such layer, and changes no
\* other layer, no bucket and not the pool.
DrawableAppended(renderOrder, drawable) ==
    /\ DOMAIN layers' = DOMAIN layers \cup {renderOrder}
    /\ layers'[renderOrder].otherDrawables
          = Append(IF renderOrder \in DOMAIN layers
                   THEN layers[renderOrder].otherDrawables ELSE <<>>, drawable)
    /\ \A i \in DOMAIN layers \ {renderOrder} : layers'[i] = layers[i]
    /\ UNCHANGED <<buckets, m_billboards, m_renderLayers>>

\* The step changes nothing of the queue.
QueueUnchanged ==
    UNCHANGED <<buckets, m_billboards, poolFault, m_renderLayers, layers, statics>>

NullMaterialPrecondition ==
    [][lastOp'.op = "AssertFailed" => QueueUnchanged]_vars

\* AddSprites with a null material for layer 0, which a soft Clear retained
\* with clearCount 1, in a queue that holds a mesh of layer 1.
NullMaterialPreconditionWitness ==
    /\ lastOp.op = "AssertFailed"
    /\ lastOp.call = "AddSprites"
    /\ lastOp.arg = 0
    /\ DOMAIN layers = {0}
    /\ layers[0].clearCount = 1
    /\ m_renderLayers = {1}
    /\ Len(models.data) = 1

\* C30: a submission issued after Sort and before Clear, and a Sort issued
\* on an empty frame or right after another Sort, are not applied to the
\* queue.
FrameStateMachine ==
    [][/\ (lastOp.op = "Sort"
           /\ lastOp'.op \in {"AddBillboards", "AddDrawable", "AddMesh", "AddSprites"})
             => QueueUnchanged
       /\ (lastOp.op \in {"Init", "Clear", "Sort"} /\ lastOp'.op = "Sort")
             => QueueUnchanged]_vars

-----------------------------------------------------------------------------
(* Properties of Sort as a whole, of the layers across soft clears, of the *)
(* pool, of the invalidation handlers, of BoxLayout and of the OBJ loader. *)

\* The (key, index) pairs of a bucket name every record exactly once.
IsPermutation(queue) ==
    /\ Len(queue.ordered) = Len(queue.data)
    /\ {queue.ordered[i].index : i \in 1..Len(queue.ordered)} = 1..Len(queue.data)

KeyOrdered(queue) ==
    \A i \in 1..(Len(queue.ordered) - 1) :
        ~Less64(queue.ordered[i + 1].key, queue.ordered[i].key)

\* C31: when Sort returns, every bucket is ordered by non-decreasing sort
\* key and holds exactly the records it held before (none dropped,
\* duplicated or moved to another bucket), and the billboard pool is
\* unchanged.
SortPostcondition ==
    [][lastOp'.op = "Sort" =>
          /\ \A b \in 1..Len(AllBuckets) :
                /\ AllBuckets'[b].data = AllBuckets[b].data
                /\ IsPermutation(AllBuckets'[b])
                /\ KeyOrdered(AllBuckets'[b])
          /\ m_billboards' = m_billboards]_vars

\* A sorted models bucket of two records that Sort put in the order opposite
\* to their submission.
SortPostconditionWitness ==
    /\ Sorted
    /\ Len(models.data) = 2
    /\ models.ordered[1].index = 2
    /\ Less64(models.ordered[1].key, models.ordered[2].key)

\* C32: a submission that takes its layer through GetLayer (AddSprites,
\* AddDrawable) sets the clearCount of that layer to 0, and a soft Clear
\* keeps every layer whose clearCount is 0: a layer used between every two
\* soft clears is never discarded.
HotLayerKept ==
    [][/\ (\/ lastOp'.op = "AddSprites"
           \/ (lastOp'.op = "AddDrawable" /\ lastOp'.drawable # Null))
             => /\ lastOp'.arg \in DOMAIN layers'
                /\ layers'[lastOp'.arg].clearCount = 0
       /\ (lastOp'.op = "Clear" /\ ~lastOp'.arg)
             => \A i \in DOMAIN layers :
                    layers[i].clearCount = 0
                        => /\ i \in DOMAIN layers'
                           /\ layers'[i].clearCount = 1]_vars

\* After a soft Clear: layer 1 has not been used for 100 soft clears and
\* layer 0, used before the last one, is kept with a count of 1.
HotLayerKeptWitness ==
    /\ lastOp.op = "Clear"
    /\ ~lastOp.arg
    /\ DOMAIN layers = {0, 1}
    /\ layers[0].clearCount = 1
    /\ layers[1].clearCount = 100

\* The pool indices (from 0) of a batch descriptor.
BatchRange(batch) == batch.billboardIndex..(batch.billboardIndex + batch.billboardCount - 1)

\* C33: between two Clear calls the ranges [offset, offset + count) of the
\* opaque billboard batches are pairwise disjoint, contiguous in submission
\* order, cover exactly the indices of the pool, and every descriptor has
\* offset + count <= pool size.
BatchesTilePool ==
    LET d == billboards.data
        n == Len(d)
    IN  /\ \A k \in 1..n : d[k].billboardIndex + d[k].billboardCount <= Len(m_billboards)
        /\ \A k, l \in 1..n : k # l => BatchRange(d[k]) \cap BatchRange(d[l]) = {}
        /\ n > 0 => d[1].billboardIndex = 0
        /\ \A k \in 1..(n - 1) :
              d[k + 1].billboardIndex = d[k].billboardIndex + d[k].billboardCount
        /\ UNION {BatchRange(d[k]) : k \in 1..n} = 0..(Len(m_billboards) - 1)

\* Two batches of one instance each on a pool of two entries.
BatchesTilePoolWitness ==
    /\ Len(billboards.data) = 2
    /\ billboards.data[1].billboardCount = 1
    /\ billboards.data[2].billboardCount = 1
    /\ billboards.data[2].billboardIndex = 1
    /\ Len(m_billboards) = 2

\* C34: a Sort that directly follows a Sort with the same viewer leaves
\* every bucket in the order of the first call and leaves the identity
\* tables unchanged.
SortIdempotent ==
    [][(lastOp.op = "Sort" /\ lastOp'.op = "Sort" /\ lastOp'.arg = lastOp.arg)
          => /\ \A b \in 1..Len(AllBuckets) : AllBuckets'[b] = AllBuckets[b]
             /\ Tables' = Tables]_vars

\* A sorted frame on which Sort is called again: the sprites bucket holds
\* two records in the order opposite to their submission and the tables
\* hold the pipeline and the material of the records.
SortIdempotentWitness ==
    /\ Sorted
    /\ Len(basicSprites.data) = 2
    /\ basicSprites.ordered[1].index = 2
    /\ Size(pipelines) = 1
    /\ Size(materials) = 1

InvalidationHandlers ==
    {"OnMaterialInvalidation", "OnTextureInvalidation",
     "OnVertexBufferInvalidation", "OnIndexBufferInvalidation"}

\* Whether a record of bucket b (its place in AllBuckets) references the
\* resource `arg` invalidated by the handler `op`.
References(b, record, op, arg) ==
    CASE op = "OnMaterialInvalidation" -> record.material.name = arg
      [] op = "OnTextureInvalidation" -> b \in {1, 4} /\ record.overlay = arg
      [] op = "OnVertexBufferInvalidation" ->
            b \in {3, 6} /\ record.meshData.vertexBuffer = arg
      [] op = "OnIndexBufferInvalidation" ->
            b \in {3, 6} /\ record.meshData.indexBuffer = arg

\* Whether an entry of a per-layer map references the resource.
EntryReferences(entry, op, arg) ==
    CASE op = "OnMaterialInvalidation" -> entry.material.name = arg
      [] op = "OnTextureInvalidation" -> entry.overlay = arg
      [] op = "OnVertexBufferInvalidation" -> entry.meshData.vertexBuffer = arg
      [] op = "OnIndexBufferInvalidation" -> entry.meshData.indexBuffer = arg

\* The records of bucket b that do not reference the resource, in order.
RECURSIVE Unreferencing(_, _, _, _)
Unreferencing(b, data, op, arg) ==
    IF data = <<>> THEN <<>>
    ELSE IF References(b, Head(data), op, arg)
         THEN Unreferencing(b, Tail(data), op, arg)
         ELSE <<Head(data)>> \o Unreferencing(b, Tail(data), op, arg)

\* C35: an invalidation handler removes only entries that reference the
\* destroyed resource: the records that do not reference it stay in their
\* bucket in the same relative order, no bucket gains a record, and the
\* billboard pool, the active-layer set, the layers and their clearCount
\* and the identity tables are unchanged.
InvalidationFrame ==
    [][lastOp'.op \in InvalidationHandlers =>
          /\ \A b \in 1..Len(AllBuckets) :
                /\ Unreferencing(b, AllBuckets'[b].data, lastOp'.op, lastOp'.arg)
                      = Unreferencing(b, AllBuckets[b].data, lastOp'.op, lastOp'.arg)
                /\ Len(AllBuckets'[b].data) <= Len(AllBuckets[b].data)
          /\ m_billboards' = m_billboards
          /\ m_renderLayers' = m_renderLayers
          /\ DOMAIN layers' = DOMAIN layers
          /\ \A i \in DOMAIN layers :
                /\ layers'[i].clearCount = layers[i].clearCount
                /\ layers'[i].otherDrawables = layers[i].otherDrawables
                /\ \A e \in (layers[i].opaqueSprites \ layers'[i].opaqueSprites)
                        \cup (layers[i].billboards \ layers'[i].billboards)
                        \cup (layers[i].opaqueModels \ layers'[i].opaqueModels) :
                       EntryReferences(e, lastOp'.op, lastOp'.arg)
          /\ Tables' = Tables
          /\ once' = once]_vars

\* After the invalidation of MatA on a sorted frame of two models with MatB:
\* both records are in the bucket in the order of their submission and the
\* identity tables hold MatB.
InvalidationFrameWitness ==
    /\ lastOp.op = "OnMaterialInvalidation"
    /\ lastOp.arg = "MatA"
    /\ Len(models.data) = 2
    /\ models.data[1].material = MatB
    /\ models.data[1].meshData.vertexBuffer = "VB1"
    /\ models.data[2].material = MatB
    /\ models.data[2].meshData.vertexBuffer = "VB2"
    /\ Size(materials) = 1
    /\ m_renderLayers = {0}

-----------------------------------------------------------------------------
(* Properties of BoxLayout::Layout.                                        *)

\* The integer f / 2^E of a float f whose exponent is at least E, and the
\* unit in the last place of f on that scale.
Scaled(f, E) == IF f.m = 0 THEN 0 ELSE f.m * Pow2(f.e - E)

Ulp(f, E) == Pow2(f.e - E)

LeastExponent(fs) ==
    IF \A f \in fs : f.m = 0 THEN 0
    ELSE CHOOSE e \in {f.e : f \in {g \in fs : g.m # 0}} :
            \A f \in {g \in fs : g.m # 0} : e <= f.e

Abs(x) == IF x < 0 THEN 0 - x ELSE x

\* The exact sum of component c of the sizes of the first n widgets.
RECURSIVE ExactSum(_, _, _, _)
ExactSum(widgets, c, n, E) ==
    IF n = 0 THEN 0 ELSE ExactSum(widgets, c, n - 1, E) + Scaled(widgets[n].size[c], E)

SameSize(widgets) == \A i, k \in 1..Len(widgets) : widgets[i].size = widgets[k].size

\* Component c of the common size of `after` is within Len(before) units in
\* the last place of the exact mean of component c of the sizes of `before`.
NearMean(before, after, c) ==
    LET n == Len(before)
        E == LeastExponent({before[i].size[c] : i \in 1..n} \cup {after[1].size[c]})
    IN  Abs(n * Scaled(after[1].size[c], E) - ExactSum(before, c, n, E))
            <= n * n * Ulp(after[1].size[c], E)

\* The float `new` is within n units in the last place of the float `old`.
NearFloat(old, new, n) ==
    LET E == LeastExponent({old, new})
    IN  Abs(Scaled(new, E) - Scaled(old, E)) <= n * Ulp(old, E)

\* C36 as stated: after Layout on a box with a child every child has the
\* same size, the mean of the sizes before the call, so that the sum of the
\* sizes is the one before the call; a Layout that follows a Layout changes
\* no size and no position.
LayoutEqualises ==
    [][/\ (lastOp'.op = "Layout" /\ children # <<>>)
             => /\ \A i \in 1..Len(children') : children'[i].size = WidgetSize(children)
                /\ SumOfSizes(children', Len(children'))
                      = SumOfSizes(children, Len(children))
       /\ (lastOp.op = "Layout" /\ lastOp'.op = "Layout") => children' = children]_vars

\* C36: after Layout on a box with a child every child has the same size,
\* within childCount units in the last place of the exact mean of the
\* sizes before the call; a Layout that follows a Layout changes a size by
\* at most childCount units in the last place.
LayoutEqualisesRounded ==
    [][/\ (lastOp'.op = "Layout" /\ children # <<>>)
             => /\ Len(children') = Len(children)
                /\ SameSize(children')
                /\ NearMean(children, children', 1)
                /\ NearMean(children, children', 2)
       /\ (lastOp.op = "Layout" /\ lastOp'.op = "Layout")
             => \A i \in 1..Len(children) : \A c \in 1..2 :
                    NearFloat(children[i].size[c], children'[i].size[c],
                              Len(children))]_vars

\* Seven children of widths 1, 2, 2, 2, 2, 2, 2 after the second Layout:
\* the common width is one unit in the last place below 15578843 * 2^-23,
\* the width the first Layout gave.
LayoutEqualisesRoundedWitness ==
    /\ lastOp.op = "Layout"
    /\ Len(children) = 7
    /\ SameSize(children)
    /\ children[1].size[1] = [m |-> 15578842, e |-> -23]
    /\ children[1].size[2] = ToFloat(3)

\* Child i and the next child do not overlap along axis c: the next child
\* starts at or behind the end of child i.
NoOverlap(widgets, i, c) ==
    i < Len(widgets)
        => ~FloatLess(widgets[i + 1].position[c],
                      FloatAdd(widgets[i].position[c], widgets[i].size[c]))

\* C37: after Layout the i-th child (from 0) of a horizontal box is at
\* x = i * width, y = 0 and the i-th child of a vertical box at x = 0,
\* y = i * height, the products taken as the cursor sums them; consecutive
\* children do not overlap along the axis of the layout.
BoxOrientation ==
    lastOp.op = "Layout" =>
        \A i \in 1..Len(children) :
            IF m_orientation = "Horizontal"
            THEN /\ children[i].position =
                        <<CursorAt(i, children[i].size[1]), FloatZero>>
                 /\ NoOverlap(children, i, 1)
            ELSE /\ children[i].position =
                        <<FloatZero, CursorAt(i, children[i].size[2])>>
                 /\ NoOverlap(children, i, 2)

-----------------------------------------------------------------------------
(* Properties of the OBJ loader.                                           *)

\* The triangles (0, k, k+1) for k = from..n-2 of a face of n corners whose
\* indices are `corners`.
RECURSIVE Fan(_, _)
Fan(corners, from) ==
    IF from + 1 >= Len(corners) THEN <<>>
    ELSE <<corners[1], corners[from + 1], corners[from + 2]>> \o Fan(corners, from + 1)

\* C38: for a face of n corners Load pushes exactly the n-2 triangles
\* (0, k, k+1), k = 1..n-2, when n >= 3 and pushes no index when n < 3,
\* n = 0 included, and reads no element outside faceIndices.
FaceTriangulation ==
    [][lastOp'.op = "LoadFace" =>
          /\ ~loadFault'
          /\ Len(faceIndices') = lastOp'.arg
          /\ indexList' = indexList \o Fan(faceIndices', 1)
          /\ Len(indexList') - Len(indexList)
                = (IF lastOp'.arg >= 3 THEN 3 * (lastOp'.arg - 2) ELSE 0)]_vars

\* The corners of the faces already loaded, in the order Load visits them.
RECURSIVE Visited(_)
Visited(n) == IF n = 0 THEN <<>> ELSE Visited(n - 1) \o faces[n]

\* The place of the first visit of a FaceVertex.
FirstVisit(vertex, visited) ==
    CHOOSE i \in 1..Len(visited) :
        /\ visited[i] = vertex
        /\ \A j \in 1..(i - 1) : visited[j] # vertex

\* C39: within one sub-mesh two corners with equal (position, normal,
\* texCoord) get the same output index and two with different triples get
\* different ones, the indices are 0..vertexCount-1 in the order of first
\* visit, and every value pushed to the index list is below vertexCount.
VertexDeduplication ==
    \E visited \in {Visited(faceCursor - 1)} :
       /\ DOMAIN vertexMap = {visited[i] : i \in 1..Len(visited)}
       /\ \A a, b \in DOMAIN vertexMap : a # b => vertexMap[a] # vertexMap[b]
       /\ {vertexMap[a] : a \in DOMAIN vertexMap} = 0..(vertexCount - 1)
       /\ \A a, b \in DOMAIN vertexMap :
             FirstVisit(a, visited) < FirstVisit(b, visited) => vertexMap[a] < vertexMap[b]
       /\ faceCursor > 1 =>
             \A k \in 1..Len(faceIndices) :
                faceIndices[k] = vertexMap[faces[faceCursor - 1][k]]
       /\ \A i \in 1..Len(indexList) : indexList[i] < vertexCount

\* The same without the clause on the pushed values.
VertexDeduplicationOfMap ==
    \E visited \in {Visited(faceCursor - 1)} :
       /\ DOMAIN vertexMap = {visited[i] : i \in 1..Len(visited)}
       /\ \A a, b \in DOMAIN vertexMap : a # b => vertexMap[a] # vertexMap[b]
       /\ {vertexMap[a] : a \in DOMAIN vertexMap} = 0..(vertexCount - 1)
       /\ \A a, b \in DOMAIN vertexMap :
             FirstVisit(a, visited) < FirstVisit(b, visited) => vertexMap[a] < vertexMap[b]

====
